---- MODULE Spec2Model ----
(***************************************************************************)
(* Model of the DO-construct legality checks of f18 (lib/semantics/        *)
(* check-do.cpp).  A program unit is a flat, source-ordered list of        *)
(* statements (src); the parse-tree walk visits them one by one.  A stack  *)
(* node is a (variant tag, pointer into src) pair, as the ConstructNode of *)
(* the code is a variant of pointers into the parse tree.                  *)
(***************************************************************************)
EXTENDS Integers, Sequences, FiniteSets, TLC

\* ------------------------------------------------------------------ bounds
\* Number of statements in a program unit.
MaxPos == 4
\* The END statement that closes the outermost construct may follow them.
MaxEnd == MaxPos + 1
\* UserState member calls in one behaviour
MaxCalls == 4

\* ----------------------------------------------------------------- symbols
\* A Symbol is an identity: the declared name and the scope that owns it.
\* Scope 0 is the subprogram; the scope of a DO CONCURRENT or BLOCK construct
\* is named by the number of its first statement.
NoName == "-"
NoSym == <<"-", 0>>
VarNames == {"i", "j", "x", "p", "d", "e", "r", "c", "s", "u"}
PureProcs == {"g", "ieee_set_halting_mode"}
ImpureProcs == {"f", "ieee_get_status"}
ProcNames == PureProcs \cup ImpureProcs

\* semantics::IsProcedure / IsPureProcedure / IsVariableName (tools.h),
\* answered by the name-resolution subsystem.
IsProcedure(s) == s[1] \in ProcNames
IsPureProcedure(s) == s[1] \in PureProcs
IsVariableName(s) == s[1] \in VarNames

\* DeclTypeSpec category of a symbol (Symbol::GetType): r is REAL, c is
\* COMPLEX, s is CHARACTER, u has no type, the other variables are INTEGER.
SymType(s) ==
  CASE s[1] = "r" -> "Real"
    [] s[1] = "c" -> "Complex"
    [] s[1] = "s" -> "Character"
    [] s[1] = "u" -> "None"
    [] OTHER -> "Integer"

\* Symbols that are polymorphic and allocatable, the ultimate components of
\* a symbol's derived type, and the further attributes the body rules read.
\*   p: CLASS(t), ALLOCATABLE
\*   d: TYPE(t1), with a polymorphic allocatable ultimate component
\*   e: TYPE(t2), ALLOCATABLE, with a polymorphic allocatable ultimate
\*      component that is a coarray
PolyAllocNames == {"p"}
AllocatableNames == {"p", "e"}
Component(pa, co) == [polyAlloc |-> pa, coarray |-> co]
IsPolymorphicAllocatable(s) == s[1] \in PolyAllocNames
UltimateComponents(s) ==
  CASE s[1] = "d" -> {Component(TRUE, FALSE), Component(FALSE, FALSE)}
    [] s[1] = "e" -> {Component(TRUE, TRUE)}
    [] OTHER -> {}
IsPolymorphicType(s) == s[1] \in PolyAllocNames
IsAllocatable(s) == s[1] \in AllocatableNames
HasSave(s) == FALSE

\* GetAssociationRoot: the model has no ASSOCIATE, host or use association,
\* so every symbol is its own root.
GetAssociationRoot(s) == s

\* Order of a SymbolSet (std::set of symbol references): by owner, then by
\* place of declaration.
NameSeq ==
  <<"f", "g", "ieee_get_status", "ieee_set_halting_mode", "i", "j", "p", "x",
    "d", "e", "r", "c", "s", "u", "-">>
NameRank(n) == CHOOSE k \in 1..Len(NameSeq) : NameSeq[k] = n
SymBefore(a, b) ==
  a[2] < b[2] \/ (a[2] = b[2] /\ NameRank(a[1]) < NameRank(b[1]))
RECURSIVE SetToSeq(_)
SetToSeq(S) ==
  IF S = {} THEN <<>>
  ELSE LET m == CHOOSE a \in S : \A b \in S \ {a} : SymBefore(a, b)
       IN <<m>> \o SetToSeq(S \ {m})

\* --------------------------------------------------------------- locations
\* A CharBlock is a pair: statement number, position inside the statement
\* (0 is the statement as a whole).
StmtLoc(p) == <<p, 0>>
NameLoc(p, c) == <<p, 4 * c - 3>>
LowerLoc(p, c) == <<p, 4 * c - 2>>
UpperLoc(p, c) == <<p, 4 * c - 1>>
StepLoc(p, c) == <<p, 4 * c>>
MaskLoc(p) == <<p, 99>>
ArgLoc(p, k) == <<p, k>>
DeclLoc(s) == <<s[2], 100>>

\* ------------------------------------------------------------- parse tree
\* An expression: the symbols of its names, one entry for each occurrence
\* in source order, its type category, and whether it folds to zero.
NoExpr == [present |-> FALSE, occ |-> <<>>, type |-> "Integer", zero |-> FALSE]
IntExpr == [present |-> TRUE, occ |-> <<>>, type |-> "Integer", zero |-> FALSE]
ZeroExpr == [present |-> TRUE, occ |-> <<>>, type |-> "Integer", zero |-> TRUE]
RefExpr(S) == [present |-> TRUE, occ |-> S, type |-> "Integer", zero |-> FALSE]

\* parser::LoopControl::Bounds and parser::ConcurrentControl share a shape:
\* name = lower : upper [: step]
Control(n, lo, up, st) == [name |-> n, lower |-> lo, upper |-> up, step |-> st]

NoHeader == [controls |-> <<>>, mask |-> NoExpr, locality |-> <<>>]
Header(cs, m, ls) == [controls |-> cs, mask |-> m, locality |-> ls]

\* One statement of the unit.  opener is, for an END statement, the number
\* of the statement that opened its construct.
\* io holds the kinds of the io-control-specs of a data transfer statement.
Stmt(k, n, c, s, it, pr, h, lb, tg, op) ==
  [kind |-> k, name |-> n, ctl |-> c, syms |-> s, intents |-> it,
   proc |-> pr, hdr |-> h, label |-> lb, target |-> tg, opener |-> op,
   io |-> <<>>]

Simple(k) == Stmt(k, NoName, "-", <<>>, <<>>, NoSym, NoHeader, 0, 0, 0)
Named(k, n) == Stmt(k, n, "-", <<>>, <<>>, NoSym, NoHeader, 0, 0, 0)
EndStmt(k, op) == Stmt(k, NoName, "-", <<>>, <<>>, NoSym, NoHeader, 0, 0, op)
DoStmt(n, c, h) == Stmt("DoStmt", n, c, <<>>, <<>>, NoSym, h, 0, 0, 0)
AssignStmt(v) ==
  Stmt("Assign", NoName, "-", <<v>>, <<>>, NoSym, NoHeader, 0, 0, 0)
CallStmt(pr, as, it) ==
  Stmt("Call", NoName, "-", as, it, pr, NoHeader, 0, 0, 0)
DeallocateStmt(objects) ==
  Stmt("Deallocate", NoName, "-", objects, <<>>, NoSym, NoHeader, 0, 0, 0)
WriteStmt(specs) == [Simple("Write") EXCEPT !.io = specs]

\* The END statement that closes a construct opened by a statement kind.
EndOf(k) ==
  CASE k = "DoStmt" -> "EndDo"
    [] k = "Critical" -> "EndCritical"
    [] k = "ChangeTeam" -> "EndTeam"
    [] k = "Block" -> "EndBlock"

Openers == {"DoStmt", "Critical", "ChangeTeam", "Block"}
Closers == {"EndDo", "EndCritical", "EndTeam", "EndBlock"}

\* ------------------------------------------------------------------- state
VARIABLES
  src,                \* the statements of the program unit visited so far
  constructStack,     \* SemanticsContext::constructStack_
  activeDoVariables,  \* SemanticsContext::activeDoVariables_: symbol -> loc
  messages,           \* the diagnostic sink, in order of Say() calls
  matched,            \* stack index at which the last CheckNesting returned
  config,             \* conformance flags of the SemanticsContext
  userState,          \* the parser's UserState (doLabels_, depth, components)
  userCalls,          \* the UserState member calls made so far, in order
  fileFrame,          \* a FileFrame of the runtime: its members and buffer
  frameLog,           \* what the last FileFrame call did to the store
  openFile,           \* an OpenFile of the runtime: its members
  fileLog             \* the threads that use it, and what its calls did

\* The variables that the DO checker never touches
parserVars == <<userState, userCalls>>
frameVars == <<fileFrame, frameLog>>
fileVars == <<openFile, fileLog>>
runtimeVars == <<frameVars, fileVars>>
beyondChecker == <<parserVars, runtimeVars>>

\* The variables of the DO checker
checkerVars ==
  <<src, constructStack, activeDoVariables, messages, matched, config>>

vars == <<checkerVars, beyondChecker>>

\* --------------------------------------------------------------- messages
\* A diagnostic: primary location, text (the format and its arguments),
\* severity, attached locations, and the symbol the text names.
Msg(l, r, s, a, y) ==
  [loc |-> l, rule |-> r, sev |-> s, attach |-> a, sym |-> y]

\* Sequence helpers
Last(s) == s[Len(s)]

\* ------------------------------------------- SemanticsContext (semantics.h)
\* Mutant: the node goes to the wrong end of the stack.
PushConstructFront(stack, node) == <<node>> \o stack

PushConstruct(stack, node) == Append(stack, node)

PopConstruct(stack) == SubSeq(stack, 1, Len(stack) - 1)

\* CheckDoVarRedefine(location, variable) with the message as a parameter:
\* "Cannot redefine DO variable" (error) or "Possible redefinition" (warning)
SayIfActive(active, loc, sym, rule, sev) ==
  IF sym \in DOMAIN active THEN <<Msg(loc, rule, sev, <<>>, sym)>> ELSE <<>>

CheckDoVarRedefine(active, loc, sym) ==
  SayIfActive(active, loc, sym, <<"Redefine">>, "Error")

WarnDoVarRedefine(active, loc, sym) ==
  SayIfActive(active, loc, sym, <<"PossibleRedefine">>, "Warning")

\* Marks the variable live and remembers where; a variable that is live
\* already is reported and keeps its first location.  A name that has no
\* symbol is not marked.
ActivateDoVariable(active, loc, sym) ==
  [msgs |-> CheckDoVarRedefine(active, loc, sym),
   active |-> IF sym = NoSym \/ sym \in DOMAIN active THEN active
              ELSE [t \in DOMAIN active \cup {sym} |->
                      IF t = sym THEN loc ELSE active[t]]]

\* Mutant: the variable is unmarked wherever it was marked.
DeactivateDoVariableAny(active, loc, sym) ==
  [t \in DOMAIN active \ {sym} |-> active[t]]

\* Unmarks the variable if it was marked at this location.
DeactivateDoVariable(active, loc, sym) ==
  IF sym \in DOMAIN active /\ active[sym] = loc
  THEN [t \in DOMAIN active \ {sym} |-> active[t]]
  ELSE active

\* ----------------------------------------------------------- check-do.cpp
IsDoNormal(stmt) == stmt.kind = "DoStmt" /\ stmt.ctl = "Bounds"
IsDoConcurrent(stmt) == stmt.kind = "DoStmt" /\ stmt.ctl = "Concurrent"

GetControls(stmt) == stmt.hdr.controls
GetDoVariable(stmt) == stmt.hdr.controls[1].name

RECURSIVE ActivateControls(_, _, _, _)
ActivateControls(active, p, controls, c) ==
  IF c > Len(controls) THEN [msgs |-> <<>>, active |-> active]
  ELSE LET one == ActivateDoVariable(active, NameLoc(p, c), controls[c].name)
           rest == ActivateControls(one.active, p, controls, c + 1)
       IN [msgs |-> one.msgs \o rest.msgs, active |-> rest.active]

RECURSIVE DeactivateControls(_, _, _, _)
DeactivateControls(active, p, controls, c) ==
  IF c > Len(controls) THEN active
  ELSE DeactivateControls(
         DeactivateDoVariable(active, NameLoc(p, c), controls[c].name),
         p, controls, c + 1)

DefineDoVariables(active, p, stmt) ==
  IF IsDoNormal(stmt)
  THEN ActivateDoVariable(active, NameLoc(p, 1), GetDoVariable(stmt))
  ELSE IF IsDoConcurrent(stmt)
  THEN ActivateControls(active, p, GetControls(stmt), 1)
  ELSE [msgs |-> <<>>, active |-> active]

\* Mutant: nothing is deactivated when a DO construct is left.
ResetDoVariablesNone(active, p, stmt) == active

\* Mutant: the index-names of a DO CONCURRENT are never deactivated.
ResetDoVariablesNormalOnly(active, p, stmt) ==
  IF IsDoNormal(stmt)
  THEN DeactivateDoVariable(active, NameLoc(p, 1), GetDoVariable(stmt))
  ELSE active

\* Mutant: the variable of a counted DO is never deactivated.
ResetDoVariablesConcurrentOnly(active, p, stmt) ==
  IF IsDoConcurrent(stmt)
  THEN DeactivateControls(active, p, GetControls(stmt), 1)
  ELSE active

ResetDoVariables(active, p, stmt) ==
  IF IsDoNormal(stmt)
  THEN DeactivateDoVariable(active, NameLoc(p, 1), GetDoVariable(stmt))
  ELSE IF IsDoConcurrent(stmt)
  THEN DeactivateControls(active, p, GetControls(stmt), 1)
  ELSE active

\* ConstructNode: the variant tag and the pointer to the construct.
Node(stmt, p) ==
  [tag |-> CASE stmt.kind = "DoStmt" -> "DoConstruct"
             [] stmt.kind = "Critical" -> "CriticalConstruct"
             [] stmt.kind = "ChangeTeam" -> "ChangeTeamConstruct"
             [] stmt.kind = "Block" -> "BlockConstruct",
   ptr |-> p]

MaybeGetNodeName(tree, construct) == tree[construct.ptr].name

GetNodePosition(construct) == StmtLoc(construct.ptr)

SayBadLeave(loc, stmtType, enclosingStmtName, construct) ==
  <<Msg(loc, <<"MustNotLeave", stmtType, enclosingStmtName>>, "Error",
        <<GetNodePosition(construct)>>, NoSym)>>

MaybeGetDoConstruct(construct) == construct.tag = "DoConstruct"

ConstructIsDoConcurrent(tree, construct) ==
  MaybeGetDoConstruct(construct) /\ IsDoConcurrent(tree[construct.ptr])

\* Mutant: the CHANGE TEAM case is missing.
CheckForBadLeaveNoTeam(tree, loc, stmtType, construct) ==
  CASE construct.tag = "DoConstruct" ->
         IF IsDoConcurrent(tree[construct.ptr])
         THEN SayBadLeave(loc, stmtType, "DO CONCURRENT", construct)
         ELSE <<>>
    [] construct.tag = "CriticalConstruct" ->
         SayBadLeave(loc, stmtType, "CRITICAL", construct)
    [] OTHER -> <<>>

CheckForBadLeave(tree, loc, stmtType, construct) ==
  CASE construct.tag = "DoConstruct" ->
         IF IsDoConcurrent(tree[construct.ptr])
         THEN SayBadLeave(loc, stmtType, "DO CONCURRENT", construct)
         ELSE <<>>
    [] construct.tag = "CriticalConstruct" ->
         SayBadLeave(loc, stmtType, "CRITICAL", construct)
    [] construct.tag = "ChangeTeamConstruct" ->
         SayBadLeave(loc, stmtType, "CHANGE TEAM", construct)
    [] OTHER -> <<>>

\* Mutant: a named CYCLE matches a construct of that name of any kind.
StmtMatchesConstructAnyKind(stmtName, stmtType, constructName, construct) ==
  LET inDoConstruct == MaybeGetDoConstruct(construct)
  IN IF stmtName = NoName THEN inDoConstruct
     ELSE constructName # NoName /\ constructName = stmtName

StmtMatchesConstruct(stmtName, stmtType, constructName, construct) ==
  LET inDoConstruct == MaybeGetDoConstruct(construct)
  IN IF stmtName = NoName THEN inDoConstruct
     ELSE IF constructName # NoName /\ constructName = stmtName
     THEN stmtType = "EXIT" \/ inDoConstruct
     ELSE FALSE

\* Mutant: CYCLE is reported like EXIT.
CheckDoConcurrentExitAnyJump(tree, loc, stmtType, construct) ==
  IF ConstructIsDoConcurrent(tree, construct)
  THEN SayBadLeave(loc, "EXIT", "DO CONCURRENT", construct)
  ELSE <<>>

CheckDoConcurrentExit(tree, loc, stmtType, construct) ==
  IF stmtType = "EXIT" /\ ConstructIsDoConcurrent(tree, construct)
  THEN SayBadLeave(loc, "EXIT", "DO CONCURRENT", construct)
  ELSE <<>>

\* The loop of CheckNesting from stack index k down to 1, then the
\* "no matching construct" message.  matched is the index the loop
\* returned at, 0 when it ran off the stack.
RECURSIVE CheckNestingFrom(_, _, _, _, _, _)
CheckNestingFrom(tree, stack, k, loc, stmtType, stmtName) ==
  IF k = 0
  THEN [msgs |-> <<Msg(loc, <<"NoMatch", stmtType>>, "Error", <<>>, NoSym)>>,
        matched |-> 0]
  ELSE LET construct == stack[k]
           constructName == MaybeGetNodeName(tree, construct)
       IN IF StmtMatchesConstruct(stmtName, stmtType, constructName,
                                  construct)
          THEN [msgs |-> CheckDoConcurrentExit(tree, loc, stmtType, construct),
                matched |-> k]
          ELSE LET rest == CheckNestingFrom(tree, stack, k - 1, loc,
                                            stmtType, stmtName)
               IN [msgs |-> CheckForBadLeave(tree, loc, stmtType, construct)
                              \o rest.msgs,
                   matched |-> rest.matched]

\* Mutant: a jump without a match reports the missing match only.
CheckNestingNoMatchOnly(tree, stack, loc, stmtType, stmtName) ==
  LET res == CheckNestingFrom(tree, stack, Len(stack), loc, stmtType,
                              stmtName)
  IN IF res.matched = 0
     THEN [msgs |-> <<Last(res.msgs)>>, matched |-> 0]
     ELSE res

\* Mutant: after a match the outermost construct is still checked.
CheckNestingPastMatch(tree, stack, loc, stmtType, stmtName) ==
  LET res == CheckNestingFrom(tree, stack, Len(stack), loc, stmtType,
                              stmtName)
  IN IF res.matched > 1
     THEN [msgs |-> res.msgs
                      \o CheckForBadLeave(tree, loc, stmtType, stack[1]),
           matched |-> res.matched]
     ELSE res

CheckNesting(tree, stack, loc, stmtType, stmtName) ==
  CheckNestingFrom(tree, stack, Len(stack), loc, stmtType, stmtName)

\* ---- scopes (the name-resolution subsystem)
\* The construct opened at statement o is still open at statement q.
Encloses(tree, o, q) ==
  /\ o < q
  /\ tree[o].kind \in Openers
  /\ ~\E e \in (o + 1)..(q - 1) :
        e <= Len(tree) /\ tree[e].kind \in Closers /\ tree[e].opener = o

HasScope(stmt) == IsDoConcurrent(stmt) \/ stmt.kind = "Block"

\* Scopes that lexically contain statement q, the subprogram (0) excluded
EnclosingScopes(tree, q) ==
  {o \in 1..Len(tree) : HasScope(tree[o]) /\ Encloses(tree, o, q)}

LocalNames(hdr) ==
  UNION {hdr.locality[k].names :
           k \in {m \in DOMAIN hdr.locality :
                    hdr.locality[m].kind \in {"Local", "LocalInit"}}}

\* Names a scope declares.  A DO CONCURRENT: its index-names and the local
\* copies made for LOCAL and LOCAL_INIT.  A BLOCK: the entities of its
\* specification part (syms of the BLOCK statement).
Declares(stmt, n) ==
  \/ /\ IsDoConcurrent(stmt)
     /\ \/ \E c \in DOMAIN stmt.hdr.controls :
             stmt.hdr.controls[c].name[1] = n
        \/ n \in LocalNames(stmt.hdr)
  \/ /\ stmt.kind = "Block"
     /\ \E k \in DOMAIN stmt.syms : stmt.syms[k][1] = n

\* Scope::FindSymbol from the innermost of the scopes S outward
FindSymbol(tree, n, S) ==
  LET D == {o \in S : Declares(tree[o], n)}
  IN IF D = {} THEN <<n, 0>>
     ELSE <<n, CHOOSE o \in D : \A d \in D : d <= o>>

\* Mutant: a scope counts as an ancestor of itself.
DoesScopeContainOrSame(tree, ancestor, scope) ==
  ancestor = 0 \/ ancestor = scope
    \/ (scope # 0 /\ Encloses(tree, ancestor, scope))

\* DoesScopeContain(maybeAncestor, scope): a strict ancestor
DoesScopeContain(tree, ancestor, scope) ==
  /\ ancestor # scope
  /\ ancestor = 0 \/ (scope # 0 /\ Encloses(tree, ancestor, scope))

\* ---- DoConcurrentBodyEnforce: one pass over the statements of the body,
\* tree[from..to], in source order.
DeallocateAll(component) == TRUE
DeallocateNonCoarray(component) == ~component.coarray

\* Mutant: coarray components count for every kind of deallocation.
MightDeallocatePolymorphicAny(entity, nonCoarrayOnly) ==
  LET root == GetAssociationRoot(entity)
  IN IsPolymorphicAllocatable(root)
     \/ \E u \in UltimateComponents(root) : u.polyAlloc

MightDeallocatePolymorphic(entity, nonCoarrayOnly) ==
  LET root == GetAssociationRoot(entity)
  IN IsPolymorphicAllocatable(root)
     \/ \E u \in UltimateComponents(root) :
          /\ IF nonCoarrayOnly THEN DeallocateNonCoarray(u)
             ELSE DeallocateAll(u)
          /\ u.polyAlloc

\* Statement kinds that IsImageControlStmt accepts; the constructs among
\* them are visited (post-order) at their END statement.
ImageControlStmts == {"SyncAll"}
ImageControlEnds == {"EndCritical", "EndTeam"}

\* Mutant: every procedure is reported, pure or not.
PostProcedureDesignatorAny(q, proc, doPos) ==
  IF proc # NoSym
  THEN <<Msg(StmtLoc(q), <<"ImpureCall">>, "Error",
             <<StmtLoc(doPos)>>, NoSym)>>
  ELSE <<>>

\* Mutant: the note that names the enclosing DO CONCURRENT is missing.
EnclosingDoAttachNone(doPos) == <<>>

EnclosingDoAttach(doPos) == <<StmtLoc(doPos)>>

\* fromScope(symbol, "ieee_exceptions"): the module that owns the symbol
FromIeeeExceptions(proc) ==
  proc[1] \in {"ieee_set_halting_mode", "ieee_get_status"}

\* parser::Name::source: a name of the parse tree is given by the symbol it
\* resolves to; where a USE rename makes the written name differ from the
\* symbol's, the written name is added as a third component.
Renamed(sym, written) == <<sym[1], sym[2], written>>
SourceOf(name) == IF Len(name) = 3 THEN name[3] ELSE name[1]

\* Post(ProcedureDesignator) for a procedure named at statement q
PostProcedureDesignator(q, proc, doPos) ==
  (IF proc # NoSym /\ ~IsPureProcedure(proc)
   THEN <<Msg(StmtLoc(q), <<"ImpureCall">>, "Error",
              EnclosingDoAttach(doPos), NoSym)>>
   ELSE <<>>)
  \o (IF /\ proc # NoSym
          /\ FromIeeeExceptions(proc)
          /\ SourceOf(proc) = "ieee_set_halting_mode"
       THEN <<Msg(StmtLoc(q), <<"IeeeSetHaltingMode">>, "Error",
                  EnclosingDoAttach(doPos), NoSym)>>
       ELSE <<>>)

RECURSIVE PostProcedureDesignators(_, _, _)
PostProcedureDesignators(q, procs, doPos) ==
  IF procs = <<>> THEN <<>>
  ELSE PostProcedureDesignator(q, Head(procs), doPos)
         \o PostProcedureDesignators(q, Tail(procs), doPos)

ProcsOf(expr) == SelectSeq(expr.occ, IsProcedure)

RECURSIVE ControlProcs(_)
ControlProcs(controls) ==
  IF controls = <<>> THEN <<>>
  ELSE ProcsOf(Head(controls).lower) \o ProcsOf(Head(controls).upper)
         \o ProcsOf(Head(controls).step) \o ControlProcs(Tail(controls))

\* The procedure designators of a statement, in the order the walk meets them
HeaderProcs(stmt) == ControlProcs(stmt.hdr.controls) \o ProcsOf(stmt.hdr.mask)

\* Mutant: only the first allocate object is looked at.
PostDeallocateStmtFirst(q, objects, k) ==
  IF objects # <<>> /\ objects[1] # NoSym
     /\ (IsPolymorphicType(objects[1])
          \/ MightDeallocatePolymorphic(objects[1], FALSE))
  THEN <<Msg(StmtLoc(q), <<"DeallocInDoConcurrent">>, "Error",
             <<DeclLoc(objects[1])>>, objects[1])>>
  ELSE <<>>

\* Post(DeallocateStmt): the allocate objects in order
RECURSIVE PostDeallocateStmt(_, _, _)
PostDeallocateStmt(q, objects, k) ==
  IF k > Len(objects) THEN <<>>
  ELSE (IF objects[k] # NoSym
           /\ (IsPolymorphicType(objects[k])
                \/ MightDeallocatePolymorphic(objects[k], FALSE))
        THEN <<Msg(StmtLoc(q), <<"DeallocInDoConcurrent">>, "Error",
                   <<DeclLoc(objects[k])>>, objects[k])>>
        ELSE <<>>)
       \o PostDeallocateStmt(q, objects, k + 1)

\* Mutant: the ADVANCE diagnostic has no note.
PostIoControlSpecsNoNote(q, specs, doPos) ==
  [k \in 1..Cardinality({j \in DOMAIN specs : specs[j] = "Advance"}) |->
     Msg(StmtLoc(q), <<"AdvanceInDoConcurrent">>, "Error", <<>>, NoSym)]

\* Post(IoControlSpec) for the specifiers of a statement in order
RECURSIVE PostIoControlSpecs(_, _, _)
PostIoControlSpecs(q, specs, doPos) ==
  IF specs = <<>> THEN <<>>
  ELSE (IF Head(specs) = "Advance"
        THEN <<Msg(StmtLoc(q), <<"AdvanceInDoConcurrent">>, "Error",
                   EnclosingDoAttach(doPos), NoSym)>>
        ELSE <<>>)
       \o PostIoControlSpecs(q, Tail(specs), doPos)

\* Post(BlockConstruct), visited at the END BLOCK statement q of the block
\* opened at statement b: the entities of the block's scope in order
RECURSIVE BlockExitEntities(_, _)
BlockExitEntities(q, entities) ==
  IF entities = <<>> THEN <<>>
  ELSE (IF /\ IsAllocatable(Head(entities))
           /\ ~HasSave(Head(entities))
           /\ MightDeallocatePolymorphic(Head(entities), FALSE)
        THEN <<Msg(StmtLoc(q), <<"DeallocByBlockExit">>, "Error",
                   <<DeclLoc(Head(entities))>>, Head(entities))>>
        ELSE <<>>)
       \o BlockExitEntities(q, Tail(entities))

\* The Post hooks that fire at one statement of the body
BodyEnforceStmt(tree, q, doPos) ==
  LET stmt == tree[q]
  IN CASE stmt.kind = "Return" ->
            <<Msg(StmtLoc(q), <<"ReturnInDoConcurrent">>, "Error",
                  EnclosingDoAttach(doPos), NoSym)>>
       [] stmt.kind = "Assign" ->
            IF /\ stmt.syms[1] # NoSym
               /\ MightDeallocatePolymorphic(stmt.syms[1], TRUE)
            THEN <<Msg(ArgLoc(q, 1), <<"DeallocByAssignment">>, "Error",
                       <<DeclLoc(stmt.syms[1])>>, stmt.syms[1])>>
            ELSE <<>>
       [] stmt.kind = "Call" -> PostProcedureDesignator(q, stmt.proc, doPos)
       [] stmt.kind = "Deallocate" -> PostDeallocateStmt(q, stmt.syms, 1)
       [] stmt.kind = "Write" -> PostIoControlSpecs(q, stmt.io, doPos)
       [] stmt.kind = "DoStmt" ->
            PostProcedureDesignators(q, HeaderProcs(stmt), doPos)
       [] stmt.kind = "EndBlock" ->
            IF DoesScopeContain(tree, doPos, stmt.opener)
            THEN BlockExitEntities(
                   q, SetToSeq({tree[stmt.opener].syms[k] :
                                  k \in DOMAIN tree[stmt.opener].syms}))
            ELSE <<>>
       [] stmt.kind \in ImageControlStmts ->
            <<Msg(StmtLoc(q), <<"ImageControl">>, "Error",
                  EnclosingDoAttach(doPos), NoSym)>>
       [] stmt.kind \in ImageControlEnds ->
            <<Msg(StmtLoc(stmt.opener), <<"ImageControl">>, "Error",
                  EnclosingDoAttach(doPos), NoSym)>>
       [] OTHER -> <<>>

RECURSIVE BodyEnforceWalk(_, _, _, _)
BodyEnforceWalk(tree, q, to, doPos) ==
  IF q > to THEN <<>>
  ELSE BodyEnforceStmt(tree, q, doPos)
         \o BodyEnforceWalk(tree, q + 1, to, doPos)

\* Mutant: the labels of the statements of nested constructs are left out.
BodyLabelsOutermost(tree, from, to) ==
  {tree[q].label :
     q \in {r \in from..to :
              /\ tree[r].label # 0
              /\ ~\E o \in from..(r - 1) : Encloses(tree, o, r)}}

\* DoConcurrentBodyEnforce::labels(): the labels of the body's statements
BodyLabels(tree, from, to) ==
  {tree[q].label : q \in {r \in from..to : tree[r].label # 0}}

\* LabelEnforce (tools.h): a branch in the body to a label outside it
LabelEnforceStmt(tree, q, labels, doPos) ==
  IF tree[q].target # 0 /\ tree[q].target \notin labels
  THEN <<Msg(StmtLoc(q), <<"ControlFlowEscapes", "DO CONCURRENT">>, "Error",
             EnclosingDoAttach(doPos), NoSym)>>
  ELSE <<>>

RECURSIVE LabelEnforceWalk(_, _, _, _, _)
LabelEnforceWalk(tree, q, to, labels, doPos) ==
  IF q > to THEN <<>>
  ELSE LabelEnforceStmt(tree, q, labels, doPos)
         \o LabelEnforceWalk(tree, q + 1, to, labels, doPos)

\* ---- DoConcurrentVariableEnforce: the names of the body, in source order
RECURSIVE ControlNames(_)
ControlNames(controls) ==
  IF controls = <<>> THEN <<>>
  ELSE <<Head(controls).name>> \o Head(controls).lower.occ
         \o Head(controls).upper.occ
         \o Head(controls).step.occ
         \o ControlNames(Tail(controls))

NamesOf(stmt) ==
  CASE stmt.kind = "Call" -> <<stmt.proc>> \o stmt.syms
    [] stmt.kind = "DoStmt" ->
         ControlNames(stmt.hdr.controls) \o stmt.hdr.mask.occ
    [] OTHER -> stmt.syms

RECURSIVE VariableEnforceNames(_, _, _, _, _)
VariableEnforceNames(tree, q, names, k, doPos) ==
  IF k > Len(names) THEN <<>>
  ELSE (IF /\ names[k] # NoSym
           /\ IsVariableName(names[k])
           /\ DoesScopeContain(tree, names[k][2], doPos)
        THEN <<Msg(ArgLoc(q, k), <<"NotInLocalitySpec">>, "Error",
                   <<DeclLoc(names[k])>>, names[k])>>
        ELSE <<>>)
       \o VariableEnforceNames(tree, q, names, k + 1, doPos)

RECURSIVE VariableEnforceWalk(_, _, _, _)
VariableEnforceWalk(tree, q, to, doPos) ==
  IF q > to THEN <<>>
  ELSE VariableEnforceNames(tree, q, NamesOf(tree[q]), 1, doPos)
         \o VariableEnforceWalk(tree, q + 1, to, doPos)

\* ---- DoContext: header checks
SayBadDoControl(loc) ==
  <<Msg(loc, <<"DoControlsShouldBeInteger">>, "Error", <<>>, NoSym)>>

\* Mutant: a REAL control is an error when warnings are asked for.
CheckDoControlStrict(cfg, loc, isReal) ==
  LET warn == cfg.warnOnNonstandardUsage \/ cfg.warnRealDoControls
  IN IF isReal /\ ~warn THEN <<>> ELSE SayBadDoControl(loc)

CheckDoControl(cfg, loc, isReal) ==
  LET warn == cfg.warnOnNonstandardUsage \/ cfg.warnRealDoControls
  IN IF isReal /\ ~warn THEN <<>>
     ELSE IF isReal /\ warn
     THEN <<Msg(loc, <<"DoControlsShouldBeInteger">>, "Warning", <<>>, NoSym)>>
     ELSE SayBadDoControl(loc)

CheckDoVariable(cfg, loc, sym) ==
  IF sym = NoSym THEN <<>>
  ELSE IF ~IsVariableName(sym)
  THEN <<Msg(loc, <<"DoControlMustBeIntegerVariable">>, "Error", <<>>, NoSym)>>
  ELSE IF SymType(sym) = "None" THEN SayBadDoControl(loc)
  ELSE IF SymType(sym) # "Integer"
  THEN CheckDoControl(cfg, loc, SymType(sym) = "Real")
  ELSE <<>>

CheckDoExpression(cfg, loc, expr) ==
  IF expr.type # "Integer" THEN CheckDoControl(cfg, loc, expr.type = "Real")
  ELSE <<>>

\* Mutant: the step is not tested for zero.
CheckDoNormalNoZeroTest(cfg, p, stmt) ==
  LET bounds == stmt.hdr.controls[1]
  IN CheckDoVariable(cfg, NameLoc(p, 1), bounds.name)
       \o CheckDoExpression(cfg, LowerLoc(p, 1), bounds.lower)
       \o CheckDoExpression(cfg, UpperLoc(p, 1), bounds.upper)
       \o (IF bounds.step.present
           THEN CheckDoExpression(cfg, StepLoc(p, 1), bounds.step)
           ELSE <<>>)

CheckDoNormal(cfg, p, stmt) ==
  LET bounds == stmt.hdr.controls[1]
  IN CheckDoVariable(cfg, NameLoc(p, 1), bounds.name)
       \o CheckDoExpression(cfg, LowerLoc(p, 1), bounds.lower)
       \o CheckDoExpression(cfg, UpperLoc(p, 1), bounds.upper)
       \o (IF bounds.step.present
           THEN CheckDoExpression(cfg, StepLoc(p, 1), bounds.step)
                  \o (IF bounds.step.zero
                      THEN <<Msg(StepLoc(p, 1), <<"DoStepZero">>, "Warning",
                                 <<>>, NoSym)>>
                      ELSE <<>>)
           ELSE <<>>)

\* evaluate::CollectSymbols gives a set: one entry however often a symbol
\* occurs in the expression.
GatherSymbolsFromExpression(expr) ==
  {GetAssociationRoot(expr.occ[k]) : k \in DOMAIN expr.occ}

\* Mutant: every reference to an impure procedure is reported.
RECURSIVE ImpureOccurrences(_, _)
ImpureOccurrences(p, occ) ==
  IF occ = <<>> THEN <<>>
  ELSE (IF IsProcedure(Head(occ)) /\ ~IsPureProcedure(Head(occ))
        THEN <<Msg(StmtLoc(p), <<"MaskImpureProcedure">>, "Error",
                   <<DeclLoc(Head(occ))>>, Head(occ))>>
        ELSE <<>>)
       \o ImpureOccurrences(p, Tail(occ))

CheckMaskIsPureEach(p, mask) == ImpureOccurrences(p, mask.occ)

CheckMaskIsPure(p, mask) ==
  LET references == SetToSeq(GatherSymbolsFromExpression(mask))
      bad == {k \in DOMAIN references :
                IsProcedure(references[k]) /\ ~IsPureProcedure(references[k])}
  IN IF bad = {} THEN <<>>
     ELSE LET ref == references[CHOOSE k \in bad : \A m \in bad : k <= m]
          IN <<Msg(StmtLoc(p), <<"MaskImpureProcedure">>, "Error",
                   <<DeclLoc(ref)>>, ref)>>

\* Mutant: every colliding symbol of the expression is reported.
CheckNoCollisionsEach(refs, uses, rule, refPosition) ==
  LET order == SetToSeq(refs \cap uses)
  IN [k \in DOMAIN order |->
        Msg(refPosition, rule, "Error", <<DeclLoc(order[k])>>, order[k])]

CheckNoCollisions(refs, uses, rule, refPosition) ==
  LET order == SetToSeq(refs)
      hit == {k \in DOMAIN order : order[k] \in uses}
  IN IF hit = {} THEN <<>>
     ELSE LET ref == order[CHOOSE k \in hit : \A m \in hit : k <= m]
          IN <<Msg(refPosition, rule, "Error", <<DeclLoc(ref)>>, ref)>>

HasNoReferences(indexNames, expr, loc) ==
  CheckNoCollisions(GatherSymbolsFromExpression(expr), indexNames,
                    <<"ReferencesIndexName">>, loc)

CheckMaskDoesNotReferenceLocal(mask, localVars, loc) ==
  CheckNoCollisions(GatherSymbolsFromExpression(mask), localVars,
                    <<"MaskReferencesLocal">>, loc)

CheckExprDoesNotReferenceLocal(expr, localVars, loc) ==
  CheckNoCollisions(GatherSymbolsFromExpression(expr), localVars,
                    <<"ExprReferencesLocal">>, loc)

\* Mutant: an expression is checked against the index-name of its own
\* control only.
RECURSIVE CheckHeaderControlsOwnName(_, _, _, _)
CheckHeaderControlsOwnName(p, controls, c, indexNames) ==
  IF c > Len(controls) THEN <<>>
  ELSE LET own == {controls[c].name}
       IN HasNoReferences(own, controls[c].lower, LowerLoc(p, c))
            \o HasNoReferences(own, controls[c].upper, UpperLoc(p, c))
            \o (IF controls[c].step.present
                THEN HasNoReferences(own, controls[c].step, StepLoc(p, c))
                       \o (IF controls[c].step.zero
                           THEN <<Msg(StepLoc(p, c), <<"ConcurrentStepZero">>,
                                      "Error", <<>>, NoSym)>>
                           ELSE <<>>)
                ELSE <<>>)
            \o CheckHeaderControlsOwnName(p, controls, c + 1, indexNames)

RECURSIVE CheckHeaderControls(_, _, _, _)
CheckHeaderControls(p, controls, c, indexNames) ==
  IF c > Len(controls) THEN <<>>
  ELSE HasNoReferences(indexNames, controls[c].lower, LowerLoc(p, c))
         \o HasNoReferences(indexNames, controls[c].upper, UpperLoc(p, c))
         \o (IF controls[c].step.present
             THEN HasNoReferences(indexNames, controls[c].step, StepLoc(p, c))
                    \o (IF controls[c].step.zero
                        THEN <<Msg(StepLoc(p, c), <<"ConcurrentStepZero">>,
                                   "Error", <<>>, NoSym)>>
                        ELSE <<>>)
             ELSE <<>>)
         \o CheckHeaderControls(p, controls, c + 1, indexNames)

CheckConcurrentHeader(p, hdr) ==
  LET indexNames == {hdr.controls[c].name : c \in DOMAIN hdr.controls}
                      \ {NoSym}
  IN IF indexNames # {}
     THEN CheckHeaderControls(p, hdr.controls, 1, indexNames)
     ELSE <<>>

\* Mutant: the names are looked up in the scope of the DO construct itself
\* and give its local versions.
GatherLocalsOwnScope(tree, p, localitySpecs) ==
  LET names == UNION {localitySpecs[k].names :
                        k \in {m \in DOMAIN localitySpecs :
                                 localitySpecs[m].kind = "Local"}}
  IN {<<n, p>> : n \in names}

\* Names of the LOCAL locality-specs, looked up in the scope that encloses
\* the DO construct
GatherLocals(tree, p, localitySpecs) ==
  LET names == UNION {localitySpecs[k].names :
                        k \in {m \in DOMAIN localitySpecs :
                                 localitySpecs[m].kind = "Local"}}
  IN {GetAssociationRoot(FindSymbol(tree, n, EnclosingScopes(tree, p))) :
        n \in names}

\* Mutant: every DEFAULT(NONE) after the first is reported.
CheckDefaultNoneEachDuplicate(tree, p, to, localitySpecs) ==
  LET nones == {k \in DOMAIN localitySpecs :
                  localitySpecs[k].kind = "DefaultNone"}
  IN [k \in 1..(IF nones = {} THEN 0 ELSE Cardinality(nones) - 1) |->
        Msg(StmtLoc(p), <<"OnlyOneDefaultNone">>, "Warning", <<>>, NoSym)]
     \o (IF nones # {} THEN VariableEnforceWalk(tree, p + 1, to, p)
         ELSE <<>>)

\* Mutant: the body is walked only when there is exactly one DEFAULT(NONE).
CheckDefaultNoneWalkIfSingle(tree, p, to, localitySpecs) ==
  LET nones == {k \in DOMAIN localitySpecs :
                  localitySpecs[k].kind = "DefaultNone"}
  IN (IF Cardinality(nones) > 1
      THEN <<Msg(StmtLoc(p), <<"OnlyOneDefaultNone">>, "Warning", <<>>,
                 NoSym)>>
      ELSE <<>>)
     \o (IF Cardinality(nones) = 1
         THEN VariableEnforceWalk(tree, p + 1, to, p)
         ELSE <<>>)

CheckDefaultNoneImpliesExplicitLocality(tree, p, to, localitySpecs) ==
  LET nones == {k \in DOMAIN localitySpecs :
                  localitySpecs[k].kind = "DefaultNone"}
      hasDefaultNone == nones # {}
  IN (IF Cardinality(nones) > 1
      THEN <<Msg(StmtLoc(p), <<"OnlyOneDefaultNone">>, "Warning", <<>>,
                 NoSym)>>
      ELSE <<>>)
     \o (IF hasDefaultNone THEN VariableEnforceWalk(tree, p + 1, to, p)
         ELSE <<>>)

RECURSIVE CheckLocalControls(_, _, _, _)
CheckLocalControls(p, controls, c, localVars) ==
  IF c > Len(controls) THEN <<>>
  ELSE CheckExprDoesNotReferenceLocal(controls[c].lower, localVars,
                                      LowerLoc(p, c))
         \o CheckExprDoesNotReferenceLocal(controls[c].upper, localVars,
                                           UpperLoc(p, c))
         \o (IF controls[c].step.present
             THEN CheckExprDoesNotReferenceLocal(controls[c].step, localVars,
                                                 StepLoc(p, c))
             ELSE <<>>)
         \o CheckLocalControls(p, controls, c + 1, localVars)

CheckLocalitySpecs(tree, p, to, hdr) ==
  IF hdr.locality # <<>>
  THEN LET localVars == GatherLocals(tree, p, hdr.locality)
       IN CheckLocalControls(p, hdr.controls, 1, localVars)
            \o (IF hdr.mask.present
                THEN CheckMaskDoesNotReferenceLocal(hdr.mask, localVars,
                                                    MaskLoc(p))
                ELSE <<>>)
            \o CheckDefaultNoneImpliesExplicitLocality(tree, p, to,
                                                       hdr.locality)
  ELSE <<>>

CheckConcurrentLoopControl(tree, p, to, hdr) ==
  (IF hdr.mask.present THEN CheckMaskIsPure(p, hdr.mask) ELSE <<>>)
    \o CheckConcurrentHeader(p, hdr)
    \o CheckLocalitySpecs(tree, p, to, hdr)

\* Mutant: the header is checked before the body is walked.
CheckDoConcurrentHeaderFirst(tree, p, to) ==
  CheckConcurrentLoopControl(tree, p, to, tree[p].hdr)
    \o BodyEnforceWalk(tree, p + 1, to, p)
    \o LabelEnforceWalk(tree, p + 1, to, BodyLabels(tree, p + 1, to), p)

\* The body is tree[p+1..to]: the walk of the body enforcer, then the walk
\* of the label enforcer, then the checks of the header.
CheckDoConcurrent(tree, p, to) ==
  BodyEnforceWalk(tree, p + 1, to, p)
    \o LabelEnforceWalk(tree, p + 1, to, BodyLabels(tree, p + 1, to), p)
    \o CheckConcurrentLoopControl(tree, p, to, tree[p].hdr)

\* DoContext::Check
Check(cfg, tree, p, to) ==
  IF IsDoConcurrent(tree[p]) THEN CheckDoConcurrent(tree, p, to)
  ELSE IF IsDoNormal(tree[p]) THEN CheckDoNormal(cfg, p, tree[p])
  ELSE <<>>

\* CheckIfArgIsDoVar for one actual argument: its dummy's intent, the
\* whole symbol it designates (NoSym when it is not a whole variable), and
\* the location of the parsed argument.
\* Mutant: INTENT(INOUT) is reported as an error, like INTENT(OUT).
CheckIfArgIsDoVarErrorOnly(active, intent, var, loc) ==
  IF (intent = "Out" \/ intent = "InOut") /\ var # NoSym
  THEN CheckDoVarRedefine(active, loc, var)
  ELSE <<>>

CheckIfArgIsDoVar(active, intent, var, loc) ==
  IF intent = "Out" \/ intent = "InOut"
  THEN IF var # NoSym
       THEN IF intent = "Out" THEN CheckDoVarRedefine(active, loc, var)
            ELSE WarnDoVarRedefine(active, loc, var)
       ELSE <<>>
  ELSE <<>>

\* -------------------------------------------------------------- UserState
\* The parser's per-parse state.  doLabels maps a label to the nesting depth
\* recorded for it (its domain is the set of keys of doLabels_).
ComponentNames == {"a", "b"}

\* A UserState as its constructor leaves it
FreshUserState ==
  [doLabels |-> <<>>,
   nonlabelDoConstructNestingDepth |-> 0,
   oldStructureComponents |-> {}]

NewSubprogramKeepDepth(u) ==
  [u EXCEPT !.doLabels = <<>>, !.oldStructureComponents = {}]

NewSubprogram(u) ==
  [doLabels |-> <<>>,
   nonlabelDoConstructNestingDepth |-> 0,
   oldStructureComponents |-> {}]

\* Mutant: a recorded label is a DO label at every depth.
IsDoLabelAtAnyDepth(u, label) == label \in DOMAIN u.doLabels

IsDoLabel(u, label) ==
  /\ label \in DOMAIN u.doLabels
  /\ u.doLabels[label] >= u.nonlabelDoConstructNestingDepth

\* doLabels_[label] = depth: inserts the key or overwrites its value
NewDoLabel(u, label) ==
  [u EXCEPT !.doLabels =
     [l \in DOMAIN u.doLabels \cup {label} |->
        IF l = label THEN u.nonlabelDoConstructNestingDepth
        ELSE u.doLabels[l]]]

EnterNonlabelDoConstruct(u) ==
  [u EXCEPT !.nonlabelDoConstructNestingDepth = @ + 1]

\* Mutant: the depth is decremented unconditionally.
UserStateLeaveDoConstructAlways(u) ==
  [u EXCEPT !.nonlabelDoConstructNestingDepth = @ - 1]

\* UserState::LeaveDoConstruct
UserStateLeaveDoConstruct(u) ==
  IF u.nonlabelDoConstructNestingDepth > 0
  THEN [u EXCEPT !.nonlabelDoConstructNestingDepth = @ - 1]
  ELSE u

NoteOldStructureComponent(u, name) ==
  [u EXCEPT !.oldStructureComponents = @ \cup {name}]

IsOldStructureComponent(u, name) == name \in u.oldStructureComponents

\* One member call, as recorded in userCalls
Call(f, x) == [op |-> f, arg |-> x]

\* The UserState that a call leaves
Apply(u, c) ==
  CASE c.op = "NewSubprogram" -> NewSubprogram(u)
    [] c.op = "NewDoLabel" -> NewDoLabel(u, c.arg)
    [] c.op = "EnterNonlabelDoConstruct" -> EnterNonlabelDoConstruct(u)
    [] c.op = "LeaveDoConstruct" -> UserStateLeaveDoConstruct(u)
    [] c.op = "NoteOldStructureComponent" ->
         NoteOldStructureComponent(u, c.arg)

\* ------------------------------------------------- FileFrame (buffer.h)
\* Sizes and offsets are counted in blocks, scaled so that minBuffer is 2
\* blocks.  The buffer is a function from 0..size-1 to the origin of each
\* block: "U" never stored, "R" read from the store, "W" part of a frame
\* established by WriteFrame.
minBuffer == 2
MaxOffset == 3
\* std::size_t arithmetic is modular; the width is scaled like the sizes
SizeModulus == 1024

Min(a, b) == IF a < b THEN a ELSE b
Max(a, b) == IF a > b THEN a ELSE b
Minus(a, b) == (a - b) % SizeModulus

\* A FileFrame as its member initializers leave it
FreshFileFrame ==
  [buffer |-> <<>>, size |-> 0, fileOffset |-> 0, start |-> 0, length |-> 0,
   frame |-> 0, dirty |-> FALSE]

\* A call in progress: the members, the RUNTIME_CHECK that failed or the
\* undefined behaviour that was met (halted), the blocks written to the
\* store so far as pairs <<file offset, origin>>, and the ranges that
\* WriteFrame had established when Flush last wrote.
Running(m) == m.halted = ""
Halt(m, why) == IF Running(m) THEN [m EXCEPT !.halted = why] ELSE m
\* RUNTIME_CHECK(handler, cond): Terminator::CheckFailed aborts the process
RuntimeCheck(m, cond, text) == IF cond THEN m ELSE Halt(m, text)

FrameAt(f) == f.fileOffset + f.frame
FrameLength(f) ==
  Min(Minus(f.length, f.frame), Minus(f.size, f.start + f.frame))

\* std::memmove / std::memcpy of n blocks inside or between buffers
MemMove(to, d, from, s, n) ==
  [k \in DOMAIN to |->
     IF k >= d /\ k < d + n THEN from[s + (k - d)] ELSE to[k]]

\* LeftShiftBufferCircularly(buffer, bytes, shift): rotates the first
\* bytes blocks of the buffer left by shift
LeftShiftBufferCircularly(buffer, bytes, shift) ==
  [k \in DOMAIN buffer |->
     IF k < bytes THEN buffer[(k + shift) % bytes] ELSE buffer[k]]

\* The member of a set of one element.  A member function's argument m0
\* is evaluated once and its value is named m: {e : m \in {m0}}.
Result(S) == CHOOSE r \in S : TRUE

Reallocate(m0, bytes) ==
  Result({IF Running(m) /\ bytes > m.f.size
          THEN LET f == m.f
                   old == f.buffer
                   oldSize == f.size
                   size == Max(bytes, minBuffer)
                   fresh == [k \in 0..(size - 1) |-> "U"]
                   chunk == Min(f.length, oldSize - f.start)
                   first == MemMove(fresh, 0, old, f.start, chunk)
                   second == MemMove(first, chunk, old, 0, f.length - chunk)
               IN [m EXCEPT !.f = [f EXCEPT !.size = size, !.buffer = second,
                                            !.start = 0]]
          ELSE m : m \in {m0}})

Reset(f, at) ==
  [f EXCEPT !.start = 0, !.length = 0, !.frame = 0, !.fileOffset = at,
            !.dirty = FALSE]

DiscardLeadingBytes(m0, n) ==
  Result({IF ~Running(m) THEN m
          ELSE IF ~(m.f.length >= n)
          THEN Halt(m, "RUNTIME_CHECK(length_ >= n)")
          ELSE LET f == m.f
                   length == f.length - n
                   moved == f.start + n
                   start == IF length = 0 THEN 0
                            ELSE IF moved >= f.size THEN moved - f.size
                            ELSE moved
                   frame == IF f.frame >= n THEN f.frame - n ELSE 0
               IN [m EXCEPT !.f = [f EXCEPT !.length = length,
                                            !.start = start, !.frame = frame,
                                            !.fileOffset = f.fileOffset + n]]
          : m \in {m0}})

\* The loop of Flush.  Store().Write takes at most cap blocks in one call.
RECURSIVE FlushLoop(_, _)
FlushLoop(m0, cap) ==
  Result({IF ~(m.f.length > 0) THEN m
          ELSE LET f == m.f
                   chunk == Min(f.length, f.size - f.start)
                   put == Min(chunk, cap)
                   sent == {<<f.fileOffset + k, f.buffer[f.start + k]>> :
                              k \in 0..(put - 1)}
                   after ==
                     [m EXCEPT !.wrote = @ \cup sent,
                               !.f = [f EXCEPT !.length = f.length - put,
                                               !.start = f.start + put,
                                               !.fileOffset =
                                                 f.fileOffset + put]]
               IN IF chunk = 0 THEN Halt(m, "Flush does not terminate")
                  ELSE IF put < chunk THEN after
                  ELSE FlushLoop(after, cap)
          : m \in {m0}})

\* Flush up to the end of its body
FlushBody(m, cap) ==
  IF m.f.dirty
  THEN Result({IF Running(w)
               THEN [w EXCEPT !.f = Reset(w.f, w.f.fileOffset), !.ranges = {}]
               ELSE w
               : w \in {FlushLoop([m EXCEPT !.flushed = m.ranges], cap)}})
  ELSE m

\* Flush is declared bool and has no return statement: control flows off
\* its end, which is undefined; ret is what the build makes of it, a
\* return to the caller ("returns") or not ("undefined").
Flush(m0, cap, ret) ==
  Result({IF ~Running(m) THEN m
          ELSE Result({IF ret = "returns" THEN done
                       ELSE Halt(done, "undefined")
                       : done \in {FlushBody(m, cap)}})
          : m \in {m0}})

\* The loop of ReadFrame.  Store().Read delivers at most avail blocks.
RECURSIVE ReadLoop(_, _, _)
ReadLoop(m0, bytes, avail) ==
  Result({IF ~Running(m) \/ ~(FrameLength(m.f) < bytes) THEN m
          ELSE LET f == m.f
                   next == f.start + f.length
                   chunk == f.size - next
                   got == Min(chunk, avail)
                   read == [f EXCEPT !.buffer =
                                        [k \in DOMAIN f.buffer |->
                                           IF k >= next /\ k < next + got
                                           THEN "R" ELSE f.buffer[k]],
                                     !.length = f.length + got]
               IN IF ~(next < f.size)
                  THEN Halt(m, "RUNTIME_CHECK(next < size_)")
                  ELSE IF ~(read.length < read.size)
                  THEN Halt([m EXCEPT !.f = read],
                            "RUNTIME_CHECK(length_ < size_)")
                  ELSE IF got < chunk THEN [m EXCEPT !.f = read]
                  ELSE ReadLoop([m EXCEPT !.f = read], bytes, avail)
          : m \in {m0}})

\* Shifts the valid data to the start of the buffer
MakeContiguous(m0) ==
  Result({IF ~Running(m) THEN m
          ELSE LET f == m.f
                   n == f.start + f.length - f.size
               IN IF ~(f.length < f.size)
                  THEN Halt(m, "RUNTIME_CHECK(length_ < size_)")
                  ELSE IF f.start + f.length <= f.size
                  THEN [m EXCEPT !.f =
                          [f EXCEPT !.buffer = MemMove(f.buffer, 0, f.buffer,
                                                       f.start, f.length),
                                    !.start = 0]]
                  ELSE IF ~(f.length >= n)
                  THEN Halt(m, "RUNTIME_CHECK(length_ >= n)")
                  ELSE [m EXCEPT !.f =
                          [f EXCEPT !.buffer =
                                      LeftShiftBufferCircularly(
                                        MemMove(f.buffer, n, f.buffer,
                                                f.start, f.length - n),
                                        f.length, n),
                                    !.start = 0]]
          : m \in {m0}})

\* ReadFrame: the frame is placed in the buffered data, or the buffer is
\* reset to the frame's offset
PlaceFrame(m0, at) ==
  Result({IF ~Running(m) THEN m
          ELSE LET f == IF \/ at < m.f.fileOffset
                           \/ at > m.f.fileOffset + m.f.length
                        THEN Reset(m.f, at)
                        ELSE m.f
               IN [m EXCEPT !.f = [f EXCEPT !.frame = at - f.fileOffset]]
          : m \in {m0}})

\* ReadFrame: room for the frame is made at its end
MakeRoom(m0, bytes) ==
  Result({IF ~Running(m) \/ ~(m.f.start + m.f.frame + bytes > m.f.size)
          THEN m
          ELSE Result({IF Running(d) /\ d.f.start + bytes > d.f.size
                       THEN MakeContiguous(d)
                       ELSE d
                       : d \in {DiscardLeadingBytes(m, m.f.frame)}})
          : m \in {m0}})

ReadFrame(m0, at, bytes, avail, cap, ret) ==
  ReadLoop(MakeRoom(PlaceFrame(Reallocate(Flush(m0, cap, ret), bytes), at),
                    bytes),
           bytes, avail)

\* WriteFrame: the buffer is flushed and moved to the frame's offset
Retarget(m0, at, bytes, cap, ret) ==
  Result({Reallocate([flushed EXCEPT !.f.fileOffset = at], bytes)
          : flushed \in {Flush(m0, cap, ret)}})

\* WriteFrame: the frame is established, and the caller stores its data
\* into it
Establish(m1, at, bytes) ==
  LET f1 == m1.f
      frame == at - f1.fileOffset
      f2 == [f1 EXCEPT !.dirty = TRUE, !.frame = frame,
                       !.length = Max(f1.length, frame + bytes)]
      stored == [k \in DOMAIN f2.buffer |->
                   IF k >= f2.start + frame /\ k < f2.start + frame + bytes
                   THEN "W" ELSE f2.buffer[k]]
  IN IF Running(m1)
     THEN [m1 EXCEPT !.f = [f2 EXCEPT !.buffer = stored],
                     !.ranges = @ \cup {at + k : k \in 0..(bytes - 1)}]
     ELSE m1

\* A dirty buffer is extended without a look at its size.
WriteFrameNoSizeTest(m0, at, bytes, cap, ret) ==
  Result({Establish(m1, at, bytes)
          : m1 \in {Result({IF \/ ~m.f.dirty
                               \/ at < m.f.fileOffset
                               \/ at > m.f.fileOffset + m.f.length
                            THEN Retarget(m, at, bytes, cap, ret)
                            ELSE m
                            : m \in {m0}})}})

\* WriteFrame, and the caller storing its data into the frame
WriteFrame(m0, at, bytes, cap, ret) ==
  Result({Establish(m1, at, bytes)
          : m1 \in {Result({IF \/ ~m.f.dirty
                               \/ at < m.f.fileOffset
                               \/ at > m.f.fileOffset + m.f.length
                               \/ m.f.start + (at - m.f.fileOffset) + bytes
                                    > m.f.size
                            THEN Retarget(m, at, bytes, cap, ret)
                            ELSE m
                            : m \in {m0}})}})

\* The log before any call, and the machine that a call starts with
NoFrameLog ==
  [op |-> "", at |-> 0, bytes |-> 0, halted |-> "", wrote |-> {},
   flushed |-> {}, ranges |-> {}, wasDirty |-> FALSE]
Machine(f, log) ==
  [f |-> f, halted |-> "", wrote |-> {}, flushed |-> {}, ranges |-> log.ranges]

\* ------------------------------------------------- OpenFile (file.cc)
\* The pending list is the sequence of its nodes, head first; a node is
\* [id, ioStat, addr], addr being the identity of the allocation.  An
\* iostat is the name of its value.
Retried == {"EAGAIN", "EWOULDBLOCK", "EINTR"}
Errnos == Retried \cup {"EIO"}
IostatEnd == "FORTRAN_RUNTIME_IOSTAT_END"
IostatOk == "0"

\* The values of an int (nextId_, Pending::id), scaled
IdModulus == 4
Ids == 0..(IdModulus - 1)

\* An OpenFile as its constructor leaves it.  nextId_ has no initializer:
\* its value is whatever the storage holds, here the parameter.  Only
\* PendingResult reads it.
OpenFile(id) ==
  [position |-> 0, knownSize |-> [known |-> FALSE, size |-> 0],
   nextId |-> id, pending |-> <<>>]

\* What the operating system does in one call of Read or Write: whether
\* lseek succeeds, and what read/write return call after call: a count
\* (Did), 0, or -1 with an errno (Failed).  When the script is used up,
\* read returns 0 and write takes all it is given.
Did(n) == [n |-> n, errno |-> ""]
Failed(e) == [n |-> 0 - 1, errno |-> e]
SysCall(script, k, given, then) ==
  IF k > Len(script) THEN Did(then)
  ELSE IF script[k].n < 0 THEN script[k]
  ELSE Did(Min(script[k].n, given))

\* ::lseek returns the resulting offset, or -1
LSeek(at, os) == IF os.seek = "ok" THEN at ELSE 0 - 1

RawSeek(at, os) == LSeek(at, os) = 0

\* A call in progress: c.file the members, c.signals what the handler was
\* signalled, c.ok the value of Seek
SignalError(c, err) == [c EXCEPT !.signals = Append(@, <<"Error", err>>)]
SignalEnd(c) == [c EXCEPT !.signals = Append(@, <<"End">>)]

Seek(c, at, os) ==
  IF at = c.file.position THEN [c EXCEPT !.ok = TRUE, !.seek = "same"]
  ELSE IF RawSeek(at, os)
  THEN [c EXCEPT !.file.position = at, !.ok = TRUE, !.seek = "moved"]
  ELSE [SignalError(c, "errno") EXCEPT !.ok = FALSE, !.seek = "failed"]

\* A loop that gives up at an errno that Read retries
RECURSIVE ReadChunksGivingUp(_, _, _, _, _)
ReadChunksGivingUp(c, minBytes, maxBytes, os, k) ==
  IF ~(c.count < minBytes) THEN c
  ELSE LET chunk == SysCall(os.script, k, maxBytes - c.count, 0)
       IN IF chunk.n = 0 THEN SignalEnd([c EXCEPT !.calls = k])
          ELSE IF chunk.n < 0
          THEN IF chunk.errno \notin Retried
               THEN SignalError([c EXCEPT !.calls = k], chunk.errno)
               ELSE [c EXCEPT !.calls = k]
          ELSE ReadChunksGivingUp([c EXCEPT !.file.position = @ + chunk.n,
                                            !.count = @ + chunk.n,
                                            !.calls = k],
                                  minBytes, maxBytes, os, k + 1)

\* The loop of Read from its k-th call of ::read on
RECURSIVE ReadChunks(_, _, _, _, _)
ReadChunks(c, minBytes, maxBytes, os, k) ==
  IF ~(c.count < minBytes) THEN c
  ELSE LET chunk == SysCall(os.script, k, maxBytes - c.count, 0)
       IN IF chunk.n = 0 THEN SignalEnd([c EXCEPT !.calls = k])
          ELSE IF chunk.n < 0
          THEN IF chunk.errno \notin Retried
               THEN SignalError([c EXCEPT !.calls = k], chunk.errno)
               ELSE ReadChunks([c EXCEPT !.calls = k], minBytes, maxBytes,
                               os, k + 1)
          ELSE ReadChunks([c EXCEPT !.file.position = @ + chunk.n,
                                    !.count = @ + chunk.n, !.calls = k],
                          minBytes, maxBytes, os, k + 1)

Read(c0, at, minBytes, maxBytes, os) ==
  IF maxBytes = 0 THEN c0
  ELSE LET c == Seek(c0, at, os)
       IN IF ~c.ok THEN c
          ELSE ReadChunks(c, Min(minBytes, maxBytes), maxBytes, os, 1)

\* The loop of Write from its k-th call of ::write on
RECURSIVE WriteChunks(_, _, _, _)
WriteChunks(c, bytes, os, k) ==
  IF ~(c.count < bytes) THEN c
  ELSE LET chunk == SysCall(os.script, k, bytes - c.count,
                            bytes - c.count)
       IN IF chunk.n >= 0
          THEN WriteChunks([c EXCEPT !.file.position = @ + chunk.n,
                                     !.count = @ + chunk.n, !.calls = k],
                           bytes, os, k + 1)
          ELSE IF chunk.errno \notin Retried
          THEN SignalError([c EXCEPT !.calls = k], chunk.errno)
          ELSE WriteChunks([c EXCEPT !.calls = k], bytes, os, k + 1)

Write(c0, at, bytes, os) ==
  IF bytes = 0 THEN c0
  ELSE LET c == Seek(c0, at, os)
           w == WriteChunks(c, bytes, os, 1)
       IN IF ~c.ok THEN c
          ELSE IF w.file.knownSize.known
                    /\ w.file.position > w.file.knownSize.size
          THEN [w EXCEPT !.file.knownSize.size = w.file.position]
          ELSE w

\* The log before any call, and the call that a member function starts
\* with.  The log keeps of the last call: its arguments, position_ before
\* it, what Seek did ("none" when it was not called), whether lseek
\* succeeded, the count returned, the signals to the handler, and whether
\* a ::read or ::write of the call failed with a retried errno.
NoCall ==
  [op |-> "", at |-> 0, minBytes |-> 0, maxBytes |-> 0, before |-> 0,
   seek |-> "none", lseek |-> "ok", count |-> 0, signals |-> <<>>,
   retried |-> FALSE]

\* The asynchronous transfers (the build with ::pread and ::pwrite): the
\* iostat that the loop ends with
RECURSIVE ReadAsynchronously(_, _, _, _)
ReadAsynchronously(bytes, script, k, got) ==
  IF ~(got < bytes) THEN IostatOk
  ELSE LET chunk == SysCall(script, k, bytes - got, 0)
       IN IF chunk.n = 0 THEN IostatEnd
          ELSE IF chunk.n < 0
          THEN IF chunk.errno \notin Retried THEN chunk.errno
               ELSE ReadAsynchronously(bytes, script, k + 1, got)
          ELSE ReadAsynchronously(bytes, script, k + 1, got + chunk.n)

RECURSIVE WriteAsynchronously(_, _, _, _)
WriteAsynchronously(bytes, script, k, put) ==
  IF ~(put < bytes) THEN IostatOk
  ELSE LET chunk == SysCall(script, k, bytes - put, bytes - put)
       IN IF chunk.n >= 0
          THEN WriteAsynchronously(bytes, script, k + 1, put + chunk.n)
          ELSE IF chunk.errno \notin Retried THEN chunk.errno
          ELSE WriteAsynchronously(bytes, script, k + 1, put)

\* PendingResult; addr is the node that New<Pending> allocates
PendingResult(file, iostat, addr) ==
  [file EXCEPT !.nextId = (@ + 1) % IdModulus,
               !.pending = <<[id |-> file.nextId, ioStat |-> iostat,
                              addr |-> addr]>> \o @]

\* The section of Wait that holds lock_: the file it leaves and p, the
\* node found (<<>> is the null pointer)
FirstPending(pending, id) ==
  IF \E k \in DOMAIN pending : pending[k].id = id
  THEN CHOOSE k \in DOMAIN pending :
         /\ pending[k].id = id
         /\ \A j \in 1..(k - 1) : pending[j].id # id
  ELSE 0
Unlink(pending, k) ==
  SubSeq(pending, 1, k - 1) \o SubSeq(pending, k + 1, Len(pending))
WaitLocked(file, id) ==
  LET k == FirstPending(file.pending, id)
  IN IF k = 0 THEN [file |-> file, p |-> <<>>]
     ELSE [file |-> [file EXCEPT !.pending = Unlink(@, k)],
           p |-> <<file.pending[k]>>]

\* A section of WaitAll that holds lock_ and keeps the list as it is
WaitAllLockedKeeping(file) ==
  IF file.pending = <<>> THEN [file |-> file, p |-> <<>>]
  ELSE [file |-> file, p |-> <<Head(file.pending)>>]

\* The section of WaitAll that holds lock_
WaitAllLocked(file) ==
  IF file.pending = <<>> THEN [file |-> file, p |-> <<>>]
  ELSE [file |-> [file EXCEPT !.pending = Tail(@)],
        p |-> <<Head(file.pending)>>]

\* The threads that call the asynchronous members; where a thread is
\* (pc), and the node p it holds outside of lock_
Threads == {"t1", "t2"}
Idle == [pc |-> "idle", p |-> <<>>]
NoEvent ==
  [op |-> "", thread |-> "", id |-> 0, wasPending |-> FALSE,
   changed |-> FALSE]
\* What has happened to the node at an address: how often it was taken
\* off the list, passed to a handler's SignalError, and freed
Allocated == [removed |-> 0, signalled |-> 0, freed |-> 0]
NoFileLog ==
  [last |-> NoCall, threads |-> [t \in Threads |-> Idle], nodes |-> <<>>,
   event |-> NoEvent]
Starting(file) ==
  [file |-> file, ok |-> TRUE, seek |-> "none", count |-> 0, calls |-> 0,
   signals |-> <<>>]

\* ------------------------------------------------------------- the driver
\* The parse-tree walk of one program unit.  Each action visits the next
\* statement (number Len(src) + 1) and runs the handlers that fire there.
Init ==
  /\ src = <<>>
  /\ constructStack = <<>>
  /\ activeDoVariables = <<>>
  /\ messages = <<>>
  /\ matched = 0
  /\ config = [warnOnNonstandardUsage |-> FALSE, warnRealDoControls |-> FALSE]
  /\ userState = FreshUserState
  /\ userCalls = <<>>
  /\ fileFrame = FreshFileFrame
  /\ frameLog = NoFrameLog
  /\ openFile = OpenFile(0)
  /\ fileLog = NoFileLog

Here == Len(src) + 1

\* The symbol a name resolves to at the statement being visited
Resolve(n) == FindSymbol(src, n, EnclosingScopes(src, Here))

\* Name resolution of a concurrent header written with names: an index-name
\* is a construct entity of the loop's scope (no symbol when it could not be
\* declared, written NoName); the names in the limit, step and mask
\* expressions are resolved after the index-names are declared and before
\* the locality-specs are.
IndexSymbol(n) == IF n = NoName THEN NoSym ELSE <<n, Here>>

ResolveInHeader(indexNames, n) ==
  IF n \in indexNames \ {NoName} THEN <<n, Here>> ELSE Resolve(n)

ResolveExpr(indexNames, e) ==
  [e EXCEPT !.occ = [k \in DOMAIN e.occ |->
                       ResolveInHeader(indexNames, e.occ[k])]]

ResolveHeader(t) ==
  LET indexNames == {t.controls[c].name : c \in DOMAIN t.controls}
  IN Header([c \in DOMAIN t.controls |->
               Control(IndexSymbol(t.controls[c].name),
                       ResolveExpr(indexNames, t.controls[c].lower),
                       ResolveExpr(indexNames, t.controls[c].upper),
                       ResolveExpr(indexNames, t.controls[c].step))],
            ResolveExpr(indexNames, t.mask),
            t.locality)

\* The DO statement a template stands for at the statement being visited.
\* An index-name of DO CONCURRENT is a construct entity of the loop's scope.
DoStmtOf(n, t) ==
  CASE t.ctl = "Bounds" ->
         DoStmt(n, "Bounds",
                Header(<<Control(Resolve(t.var), IntExpr, IntExpr, t.step)>>,
                       NoExpr, <<>>))
    [] t.ctl = "Concurrent" ->
         DoStmt(n, "Concurrent",
                Header(<<Control(<<t.var, Here>>, IntExpr, IntExpr, t.step)>>,
                       NoExpr, <<>>))
    [] t.ctl = "Header" -> DoStmt(n, "Concurrent", ResolveHeader(t))
    [] t.ctl = "Counted" ->
         DoStmt(n, "Bounds",
                Header(<<Control(Resolve(t.var), t.lower, t.upper, t.step)>>,
                       NoExpr, <<>>))
    [] OTHER -> DoStmt(n, "While", NoHeader)

\* Mutant: the construct is checked when it is entered as well.
EnterDoConstructChecked(n, t) ==
  LET stmt == DoStmtOf(n, t)
      def == DefineDoVariables(activeDoVariables, Here, stmt)
  IN /\ Here <= MaxPos
     /\ src' = Append(src, stmt)
     /\ constructStack' = PushConstruct(constructStack, Node(stmt, Here))
     /\ activeDoVariables' = def.active
     /\ messages' = messages \o def.msgs
                      \o Check(config, Append(src, stmt), Here, Here)
     /\ matched' = 0
     /\ UNCHANGED <<config, beyondChecker>>

\* Pre(DoConstruct): PushConstruct, then DoChecker::Enter(DoConstruct)
EnterDoConstruct(n, t) ==
  LET stmt == DoStmtOf(n, t)
      def == DefineDoVariables(activeDoVariables, Here, stmt)
  IN /\ Here <= MaxPos
     /\ src' = Append(src, stmt)
     /\ constructStack' = PushConstruct(constructStack, Node(stmt, Here))
     /\ activeDoVariables' = def.active
     /\ messages' = messages \o def.msgs
     /\ matched' = 0
     /\ UNCHANGED <<config, beyondChecker>>

\* Post(DoConstruct): DoChecker::Leave(DoConstruct), then PopConstruct.
\* The END DO statement is statement number Here, at most number last.
LeaveDoConstructWithin(last) ==
  /\ Here <= last
  /\ constructStack # <<>>
  /\ Last(constructStack).tag = "DoConstruct"
  /\ LET p == Last(constructStack).ptr
     IN /\ messages' = messages \o Check(config, src, p, Len(src))
        /\ activeDoVariables' = ResetDoVariables(activeDoVariables, p, src[p])
        /\ src' = Append(src, EndStmt("EndDo", p))
  /\ constructStack' = PopConstruct(constructStack)
  /\ matched' = 0
  /\ UNCHANGED <<config, beyondChecker>>

LeaveDoConstruct == LeaveDoConstructWithin(MaxPos)

\* Pre of a CRITICAL, CHANGE TEAM or BLOCK construct: PushConstruct
EnterConstruct(k, n) ==
  /\ Here <= MaxPos
  /\ src' = Append(src, Named(k, n))
  /\ constructStack' = PushConstruct(constructStack, Node(Named(k, n), Here))
  /\ matched' = 0
  /\ UNCHANGED <<activeDoVariables, messages, config, beyondChecker>>

\* Pre of a BLOCK construct whose specification part declares the names
EnterBlockConstruct(names) ==
  LET stmt == [Simple("Block") EXCEPT
                 !.syms = [k \in DOMAIN names |-> <<names[k], Here>>]]
  IN /\ Here <= MaxPos
     /\ src' = Append(src, stmt)
     /\ constructStack' = PushConstruct(constructStack, Node(stmt, Here))
     /\ matched' = 0
     /\ UNCHANGED <<activeDoVariables, messages, config, beyondChecker>>

\* Post of a CRITICAL, CHANGE TEAM or BLOCK construct: PopConstruct
LeaveConstruct ==
  /\ Here <= MaxPos
  /\ constructStack # <<>>
  /\ Last(constructStack).tag # "DoConstruct"
  /\ LET p == Last(constructStack).ptr
     IN src' = Append(src, EndStmt(EndOf(src[p].kind), p))
  /\ constructStack' = PopConstruct(constructStack)
  /\ matched' = 0
  /\ UNCHANGED <<activeDoVariables, messages, config, beyondChecker>>

\* DoChecker::Enter(CycleStmt) and DoChecker::Enter(ExitStmt)
JumpStmt(stmtType, n) ==
  LET res == CheckNesting(src, constructStack, StmtLoc(Here), stmtType, n)
  IN /\ Here <= MaxPos
     /\ src' = Append(src, Named(stmtType, n))
     /\ messages' = messages \o res.msgs
     /\ matched' = res.matched
     /\ UNCHANGED <<constructStack, activeDoVariables, config, beyondChecker>>

EnterCycleStmt(n) == JumpStmt("CYCLE", n)

EnterExitStmt(n) == JumpStmt("EXIT", n)

\* DoChecker::Leave(AssignmentStmt)
LeaveAssignmentStmt(v) ==
  LET var == Resolve(v)
  IN /\ Here <= MaxPos
     /\ src' = Append(src, AssignStmt(var))
     /\ messages' = messages
                      \o CheckDoVarRedefine(activeDoVariables,
                                            ArgLoc(Here, 1), var)
     /\ matched' = 0
     /\ UNCHANGED <<constructStack, activeDoVariables, config, beyondChecker>>

\* DoChecker::Leave(CallStmt): the checked arguments in order
RECURSIVE CheckArgs(_, _, _, _, _)
CheckArgs(active, p, syms, intents, k) ==
  IF k > Len(syms) THEN <<>>
  ELSE CheckIfArgIsDoVar(active, intents[k].intent,
                         IF intents[k].whole THEN syms[k] ELSE NoSym,
                         ArgLoc(p, k))
         \o CheckArgs(active, p, syms, intents, k + 1)

LeaveCallTo(designator, v, a) ==
  LET stmt == CallStmt(designator, <<Resolve(v)>>, <<a>>)
  IN /\ Here <= MaxPos
     /\ src' = Append(src, stmt)
     /\ messages' = messages
                      \o CheckArgs(activeDoVariables, Here, stmt.syms,
                                   stmt.intents, 1)
     /\ matched' = 0
     /\ UNCHANGED <<constructStack, activeDoVariables, config, beyondChecker>>

LeaveCallStmt(pr, v, a) == LeaveCallTo(<<pr, 0>>, v, a)

\* A RETURN statement: no handler of the DoChecker fires when it is visited
ReturnStmt ==
  /\ Here <= MaxPos
  /\ src' = Append(src, Simple("Return"))
  /\ matched' = 0
  /\ UNCHANGED <<constructStack, activeDoVariables, messages, config, beyondChecker>>

\* A GOTO statement: no handler of the DoChecker fires when it is visited
GotoStmt(l) ==
  /\ Here <= MaxPos
  /\ src' = Append(src, Stmt("Goto", NoName, "-", <<>>, <<>>, NoSym,
                             NoHeader, 0, l, 0))
  /\ matched' = 0
  /\ UNCHANGED <<constructStack, activeDoVariables, messages, config, beyondChecker>>

\* A statement at which no handler of the DoChecker fires
\* (LabeledStmt: l CONTINUE)
PlainStmt(stmt) ==
  /\ Here <= MaxPos
  /\ src' = Append(src, stmt)
  /\ matched' = 0
  /\ UNCHANGED <<constructStack, activeDoVariables, messages, config, beyondChecker>>

SyncAllStmt == PlainStmt(Simple("SyncAll"))

LabeledStmt(l) ==
  PlainStmt(Stmt("Continue", NoName, "-", <<>>, <<>>, NoSym, NoHeader,
                 l, 0, 0))

DeallocateStmtOf(v) == PlainStmt(DeallocateStmt(<<Resolve(v)>>))

DeallocateStmtOfAll(vs) ==
  PlainStmt(DeallocateStmt([k \in DOMAIN vs |-> Resolve(vs[k])]))

WriteStmtWith(specs) == PlainStmt(WriteStmt(specs))

\* The pass over the statements k.. of a whole unit, begun with a given
\* construct stack and set of active DO variables: the handlers above, one
\* statement after the other.
RECURSIVE RunPass(_, _, _, _, _)
RunPass(cfg, tree, k, stack, active) ==
  IF k > Len(tree)
  THEN [msgs |-> <<>>, stack |-> stack, active |-> active]
  ELSE LET stmt == tree[k]
           visited == SubSeq(tree, 1, k - 1)
           def == DefineDoVariables(active, k, stmt)
           quiet == [msgs |-> <<>>, stack |-> stack, active |-> active]
           step ==
             CASE stmt.kind = "DoStmt" ->
                    [msgs |-> def.msgs,
                     stack |-> PushConstruct(stack, Node(stmt, k)),
                     active |-> def.active]
               [] stmt.kind = "EndDo" ->
                    [msgs |-> Check(cfg, visited, stmt.opener, k - 1),
                     stack |-> PopConstruct(stack),
                     active |-> ResetDoVariables(active, stmt.opener,
                                                 tree[stmt.opener])]
               [] stmt.kind \in Openers \ {"DoStmt"} ->
                    [quiet EXCEPT !.stack = PushConstruct(stack,
                                                          Node(stmt, k))]
               [] stmt.kind \in Closers \ {"EndDo"} ->
                    [quiet EXCEPT !.stack = PopConstruct(stack)]
               [] stmt.kind \in {"CYCLE", "EXIT"} ->
                    [quiet EXCEPT !.msgs =
                       CheckNesting(visited, stack, StmtLoc(k), stmt.kind,
                                    stmt.name).msgs]
               [] stmt.kind = "Assign" ->
                    [quiet EXCEPT !.msgs =
                       CheckDoVarRedefine(active, ArgLoc(k, 1), stmt.syms[1])]
               [] stmt.kind = "Call" ->
                    [quiet EXCEPT !.msgs =
                       CheckArgs(active, k, stmt.syms, stmt.intents, 1)]
               [] OTHER -> quiet
           rest == RunPass(cfg, tree, k + 1, step.stack, step.active)
       IN [msgs |-> step.msgs \o rest.msgs,
           stack |-> rest.stack,
           active |-> rest.active]

\* ---- inputs
ConstructNames == {NoName, "a"}
OtherConstructs == {"Critical", "ChangeTeam", "Block"}
Tmpl(c, v, st) == [ctl |-> c, var |-> v, step |-> st]
Arg(i, w) == [intent |-> i, whole |-> w]

\* Nesting of constructs and the jumps out of them
NestTemplates ==
  {Tmpl("Bounds", "i", NoExpr), Tmpl("Concurrent", "i", NoExpr)}

Next ==
  \/ \E n \in ConstructNames, t \in NestTemplates : EnterDoConstruct(n, t)
  \/ EnterDoConstruct(NoName, Tmpl("While", "-", NoExpr))
  \/ LeaveDoConstruct
  \/ \E k \in OtherConstructs, n \in ConstructNames : EnterConstruct(k, n)
  \/ LeaveConstruct
  \/ \E n \in ConstructNames : EnterCycleStmt(n)
  \/ \E n \in ConstructNames : EnterExitStmt(n)

Spec == Init /\ [][Next]_vars

\* Definitions of DO variables
RedefTemplates ==
  {Tmpl("Bounds", "i", NoExpr), Tmpl("Bounds", "j", NoExpr),
   Tmpl("Concurrent", "i", NoExpr), Tmpl("Concurrent", "j", NoExpr)}
RedefArgs ==
  {Arg("In", TRUE), Arg("Out", TRUE), Arg("InOut", TRUE),
   Arg("Default", TRUE), Arg("Out", FALSE)}

NextRedefine ==
  \/ \E t \in RedefTemplates : EnterDoConstruct(NoName, t)
  \/ LeaveDoConstruct
  \/ \E v \in {"i", "j"} : LeaveAssignmentStmt(v)
  \/ \E a \in RedefArgs : LeaveCallStmt("g", "i", a)

SpecRedefine == Init /\ [][NextRedefine]_vars

\* Diagnostics of the statements and of the construct checks, in order
OrderTemplates ==
  {Tmpl("Bounds", "i", ZeroExpr), Tmpl("Concurrent", "i", NoExpr),
   Tmpl("Concurrent", "i", ZeroExpr)}

NextOrder ==
  \/ \E t \in OrderTemplates : EnterDoConstruct(NoName, t)
  \/ LeaveDoConstruct
  \/ EnterConstruct("Critical", NoName)
  \/ LeaveConstruct
  \/ EnterExitStmt(NoName)
  \/ LeaveAssignmentStmt("i")
  \/ LeaveCallStmt("f", "i", Arg("InOut", TRUE))
  \/ ReturnStmt
  \/ GotoStmt(10)

SpecOrder == Init /\ [][NextOrder]_vars

\* The statements of the body of a DO CONCURRENT, nested loops included
BodyTemplates ==
  {Tmpl("Concurrent", "i", NoExpr), Tmpl("Concurrent", "i", ZeroExpr)}

NextBody ==
  \/ \E t \in BodyTemplates : EnterDoConstruct(NoName, t)
  \/ EnterDoConstruct(NoName, Tmpl("Bounds", "i", NoExpr))
  \/ LeaveDoConstructWithin(MaxEnd)
  \/ ReturnStmt
  \/ LeaveCallStmt("f", "x", Arg("In", TRUE))
  \/ LeaveCallStmt("g", "x", Arg("In", TRUE))
  \/ LeaveCallStmt("ieee_set_halting_mode", "x", Arg("In", TRUE))
  \/ SyncAllStmt
  \/ EnterExitStmt(NoName)
  \/ GotoStmt(10)
  \/ \E v \in {"x", "p", "i"} : LeaveAssignmentStmt(v)
  \/ DeallocateStmtOf("p")
  \/ WriteStmtWith(<<"Advance">>)

SpecBody == Init /\ [][NextBody]_vars

\* The headers of DO CONCURRENT, written with names
MaskExpr(names) ==
  [present |-> TRUE, occ |-> names, type |-> "Logical", zero |-> FALSE]
Local(names) == [kind |-> "Local", names |-> names]
DefaultNone == [kind |-> "DefaultNone", names |-> {}]
HeaderTmpl(cs, m, ls) ==
  [ctl |-> "Header", controls |-> cs, mask |-> m, locality |-> ls]
OneControl(st) == <<Control("i", IntExpr, IntExpr, st)>>

HeaderTemplates ==
  {HeaderTmpl(OneControl(IntExpr), NoExpr, <<>>),
   HeaderTmpl(OneControl(NoExpr), MaskExpr(<<"f">>), <<>>),
   HeaderTmpl(OneControl(NoExpr), MaskExpr(<<"f", "g", "f">>), <<>>),
   HeaderTmpl(OneControl(NoExpr), MaskExpr(<<"g", "i">>), <<>>),
   HeaderTmpl(OneControl(RefExpr(<<"x">>)), NoExpr, <<Local({"x"})>>),
   HeaderTmpl(<<Control("i", IntExpr, IntExpr, NoExpr),
                Control("j", IntExpr, RefExpr(<<"i">>), NoExpr)>>,
              NoExpr, <<>>),
   HeaderTmpl(<<Control("i", RefExpr(<<"i">>), IntExpr,
                        RefExpr(<<"i", "j">>)),
                Control("j", IntExpr, IntExpr, NoExpr)>>,
              NoExpr, <<>>),
   HeaderTmpl(OneControl(ZeroExpr), NoExpr, <<>>),
   HeaderTmpl(<<Control(NoName, IntExpr, IntExpr, ZeroExpr)>>, NoExpr, <<>>),
   HeaderTmpl(OneControl(NoExpr), NoExpr, <<DefaultNone>>),
   HeaderTmpl(OneControl(NoExpr), NoExpr, <<DefaultNone, DefaultNone>>)}

NextHeader ==
  \/ \E t \in HeaderTemplates : EnterDoConstruct(NoName, t)
  \/ LeaveDoConstructWithin(MaxEnd)
  \/ LeaveAssignmentStmt("x")

SpecHeader == Init /\ [][NextHeader]_vars

\* Deallocation and the other rules of the body of a DO CONCURRENT
\*   use ieee_exceptions, only: ieee_set_halting_mode => ieee_get_status
HaltingModeRenamed ==
  Renamed(<<"ieee_get_status", 0>>, "ieee_set_halting_mode")

NextDealloc ==
  \/ EnterDoConstruct(NoName, Tmpl("Concurrent", "i", NoExpr))
  \/ LeaveDoConstructWithin(MaxEnd)
  \/ EnterBlockConstruct(<<"d", "e", "p">>)
  \/ LeaveConstruct
  \/ \E v \in {"p", "d", "e"} : LeaveAssignmentStmt(v)
  \/ DeallocateStmtOfAll(<<"p", "e">>)
  \/ LeaveCallTo(HaltingModeRenamed, "x", Arg("In", TRUE))
  \/ LeaveCallStmt("ieee_set_halting_mode", "x", Arg("In", TRUE))
  \/ ReturnStmt
  \/ SyncAllStmt
  \/ WriteStmtWith(<<"Advance">>)

SpecDealloc == Init /\ [][NextDealloc]_vars

\* DO CONCURRENT with DEFAULT(NONE) and the names of its body
LocalityTemplates ==
  {HeaderTmpl(OneControl(NoExpr), NoExpr, <<>>),
   HeaderTmpl(OneControl(NoExpr), NoExpr, <<DefaultNone>>),
   HeaderTmpl(OneControl(NoExpr), NoExpr, <<DefaultNone, DefaultNone>>),
   HeaderTmpl(OneControl(NoExpr), NoExpr,
              <<DefaultNone, DefaultNone, DefaultNone>>),
   HeaderTmpl(OneControl(NoExpr), NoExpr, <<DefaultNone, Local({"x"})>>),
   HeaderTmpl(<<Control("j", IntExpr, RefExpr(<<"x", "x", "i">>), NoExpr)>>,
              NoExpr, <<DefaultNone>>)}

NextLocality ==
  \/ \E t \in LocalityTemplates : EnterDoConstruct(NoName, t)
  \/ EnterDoConstruct(NoName, Tmpl("Bounds", "j", NoExpr))
  \/ LeaveDoConstructWithin(MaxEnd)
  \/ \E v \in {"x", "i"} : LeaveAssignmentStmt(v)
  \/ LeaveCallStmt("g", "x", Arg("In", TRUE))

SpecLocality == Init /\ [][NextLocality]_vars

\* Counted DO loops under each setting of the conformance flags
InitAnyConfig ==
  /\ src = <<>>
  /\ constructStack = <<>>
  /\ activeDoVariables = <<>>
  /\ messages = <<>>
  /\ matched = 0
  /\ config \in [warnOnNonstandardUsage : BOOLEAN,
                  warnRealDoControls : BOOLEAN]
  /\ userState = FreshUserState
  /\ userCalls = <<>>
  /\ fileFrame = FreshFileFrame
  /\ frameLog = NoFrameLog
  /\ openFile = OpenFile(0)
  /\ fileLog = NoFileLog

RealExpr == [present |-> TRUE, occ |-> <<>>, type |-> "Real", zero |-> FALSE]

NormalTemplates ==
  {Tmpl("Bounds", "i", NoExpr), Tmpl("Bounds", "i", IntExpr),
   Tmpl("Bounds", "i", ZeroExpr), Tmpl("Bounds", "j", RealExpr)}

NextNormal ==
  \/ \E t \in NormalTemplates : EnterDoConstruct(NoName, t)
  \/ LeaveDoConstructWithin(MaxEnd)
  \/ LeaveAssignmentStmt("i")

SpecNormal == InitAnyConfig /\ [][NextNormal]_vars

\* Labels and branches in the body of a DO CONCURRENT; two END statements
\* may follow the last statement
Labels == {10, 20}

NextLabel ==
  \/ \E v \in {"i", "j"} :
       EnterDoConstruct(NoName, Tmpl("Concurrent", v, NoExpr))
  \/ LeaveDoConstructWithin(MaxEnd + 1)
  \/ \E l \in Labels : GotoStmt(l)
  \/ \E l \in Labels : LabeledStmt(l)

SpecLabel == Init /\ [][NextLabel]_vars

\* Counted DO loops whose variable and expressions have each type
TypedExpr(T) == [present |-> TRUE, occ |-> <<>>, type |-> T, zero |-> FALSE]
Counted(v, lo, up, st) ==
  [ctl |-> "Counted", var |-> v, lower |-> lo, upper |-> up, step |-> st]

TypeTemplates ==
  {Counted("i", IntExpr, IntExpr, NoExpr),
   Counted("r", IntExpr, IntExpr, NoExpr),
   Counted("c", IntExpr, IntExpr, NoExpr),
   Counted("s", IntExpr, IntExpr, NoExpr),
   Counted("u", IntExpr, IntExpr, NoExpr),
   Counted("f", IntExpr, IntExpr, NoExpr),
   Counted(NoName, IntExpr, IntExpr, NoExpr),
   Counted("i", RealExpr, TypedExpr("Complex"), TypedExpr("Logical")),
   Counted("r", IntExpr, RealExpr, RealExpr)}

NextTypes ==
  \/ \E t \in TypeTemplates : EnterDoConstruct(NoName, t)
  \/ LeaveDoConstructWithin(MaxEnd)

SpecTypes == InitAnyConfig /\ [][NextTypes]_vars

\* The parser at work on a file of program units: each step is one call of
\* a UserState member function.
UserStateCall(c) ==
  /\ Len(userCalls) < MaxCalls
  /\ userState' = Apply(userState, c)
  /\ userCalls' = Append(userCalls, c)
  /\ UNCHANGED <<checkerVars, runtimeVars>>

CallNewSubprogram == UserStateCall(Call("NewSubprogram", 0))
CallNewDoLabel(label) == UserStateCall(Call("NewDoLabel", label))
CallEnterNonlabelDoConstruct ==
  UserStateCall(Call("EnterNonlabelDoConstruct", 0))
CallLeaveDoConstruct == UserStateCall(Call("LeaveDoConstruct", 0))
CallNoteOldStructureComponent(name) ==
  UserStateCall(Call("NoteOldStructureComponent", name))

NextUserState ==
  \/ CallNewSubprogram
  \/ \E l \in Labels : CallNewDoLabel(l)
  \/ CallEnterNonlabelDoConstruct
  \/ CallLeaveDoConstruct
  \/ \E n \in ComponentNames : CallNoteOldStructureComponent(n)

SpecUserState == Init /\ [][NextUserState]_vars

\* Headers whose expressions reference several index-names and several
\* LOCAL variables, some of them in several expressions
CollisionTemplates ==
  {HeaderTmpl(<<Control("i", RefExpr(<<"x", "p">>), RefExpr(<<"x">>),
                        RefExpr(<<"x", "x">>))>>,
              MaskExpr(<<"x">>), <<Local({"x", "p"})>>),
   HeaderTmpl(<<Control("i", RefExpr(<<"i", "j">>), IntExpr, NoExpr),
                Control("j", IntExpr, RefExpr(<<"j", "i", "x">>), NoExpr)>>,
              NoExpr, <<Local({"x"})>>),
   HeaderTmpl(OneControl(RefExpr(<<"x">>)), MaskExpr(<<"x">>), <<>>),
   HeaderTmpl(OneControl(RefExpr(<<"p">>)), NoExpr, <<Local({"x"})>>),
   HeaderTmpl(OneControl(RefExpr(<<"x">>)), NoExpr, <<DefaultNone>>)}

NextCollision ==
  \/ \E t \in CollisionTemplates : EnterDoConstruct(NoName, t)
  \/ LeaveDoConstructWithin(MaxEnd)
  \/ LeaveAssignmentStmt("x")

SpecCollision == Init /\ [][NextCollision]_vars

\* A client of one FileFrame over a store that may deliver or take fewer
\* blocks than asked for.  A process that was aborted makes no more calls.
ByteCounts == 0..(minBuffer + 1)
Offsets == 0..MaxOffset
StoreAmounts == 0..(minBuffer + 1)
FlushOutcomes == {"returns", "undefined"}

FrameCall(op, at, bytes, m0) ==
  /\ frameLog.halted = ""
  /\ \E m \in {m0} :
       /\ fileFrame' = m.f
       /\ frameLog' = [op |-> op, at |-> at, bytes |-> bytes,
                       halted |-> m.halted, wrote |-> m.wrote,
                       flushed |-> m.flushed, ranges |-> m.ranges,
                       wasDirty |-> fileFrame.dirty]
  /\ UNCHANGED <<checkerVars, parserVars, fileVars>>

CallReadFrame(at, bytes, avail, cap, ret) ==
  FrameCall("ReadFrame", at, bytes,
            ReadFrame(Machine(fileFrame, frameLog), at, bytes, avail, cap,
                      ret))

CallWriteFrame(at, bytes, cap, ret) ==
  FrameCall("WriteFrame", at, bytes,
            WriteFrame(Machine(fileFrame, frameLog), at, bytes, cap, ret))

CallFlush(cap, ret) ==
  FrameCall("Flush", 0, 0, Flush(Machine(fileFrame, frameLog), cap, ret))

\* Store().Write is called only from Flush on a dirty buffer: what it would
\* take is varied only then
TakenNow == IF fileFrame.dirty THEN StoreAmounts ELSE {0}

NextFrame ==
  \/ \E at \in Offsets, bytes \in ByteCounts, avail \in StoreAmounts,
        cap \in TakenNow, ret \in FlushOutcomes :
       CallReadFrame(at, bytes, avail, cap, ret)
  \/ \E at \in Offsets, bytes \in ByteCounts, cap \in TakenNow,
        ret \in FlushOutcomes :
       CallWriteFrame(at, bytes, cap, ret)
  \/ \E cap \in TakenNow, ret \in FlushOutcomes : CallFlush(cap, ret)

SpecFrame == Init /\ [][NextFrame]_vars

\* One thread that reads, writes and truncates an OpenFile synchronously
MaxSysCalls == 2
FileCounts == 0..2
SysResults == {Did(n) : n \in FileCounts} \cup {Failed(e) : e \in Errnos}
Scripts == UNION {[1..n -> SysResults] : n \in 0..MaxSysCalls}
SysOutcomes == {"ok", "fails"}
FileOffsets == {0, 1, 2}
Os(seek, script) == [seek |-> seek, script |-> script]

FileCall(op, at, minBytes, maxBytes, os, c) ==
  /\ openFile' = c.file
  /\ fileLog' = [fileLog EXCEPT !.last =
                   [op |-> op, at |-> at, minBytes |-> minBytes,
                    maxBytes |-> maxBytes, before |-> openFile.position,
                    seek |-> c.seek, lseek |-> os.seek, count |-> c.count,
                    signals |-> c.signals,
                    retried |-> \E k \in 1..Min(c.calls, Len(os.script)) :
                                  os.script[k].errno \in Retried]]
  /\ UNCHANGED <<checkerVars, parserVars, frameVars>>

CallRead(at, minBytes, maxBytes, os) ==
  FileCall("Read", at, minBytes, maxBytes, os,
           Read(Starting(openFile), at, minBytes, maxBytes, os))

CallWrite(at, bytes, os) ==
  FileCall("Write", at, bytes, bytes, os,
           Write(Starting(openFile), at, bytes, os))

NextFile ==
  \/ \E at \in FileOffsets, minBytes \in FileCounts, maxBytes \in FileCounts,
        seek \in SysOutcomes, script \in Scripts :
       CallRead(at, minBytes, maxBytes, Os(seek, script))
  \/ \E at \in FileOffsets, bytes \in FileCounts, seek \in SysOutcomes,
        script \in Scripts :
       CallWrite(at, bytes, Os(seek, script))

SpecFile == Init /\ [][NextFile]_vars

\* Several threads that start asynchronous transfers on one OpenFile and
\* wait for them.  A section that holds lock_ is one step; what a thread
\* does to the node it took off the list is another.
MaxAsync == 3

InitPending ==
  /\ src = <<>>
  /\ constructStack = <<>>
  /\ activeDoVariables = <<>>
  /\ messages = <<>>
  /\ matched = 0
  /\ config = [warnOnNonstandardUsage |-> FALSE, warnRealDoControls |-> FALSE]
  /\ userState = FreshUserState
  /\ userCalls = <<>>
  /\ fileFrame = FreshFileFrame
  /\ frameLog = NoFrameLog
  /\ openFile \in {OpenFile(id) : id \in Ids}
  /\ fileLog = NoFileLog

PendingStep(t, file, thread, nodes, event) ==
  /\ openFile' = file
  /\ fileLog' = [fileLog EXCEPT !.threads[t] = thread, !.nodes = nodes,
                                !.event = event]
  /\ UNCHANGED <<checkerVars, parserVars, frameVars>>

Event(op, t, id, file) ==
  [op |-> op, thread |-> t, id |-> id,
   wasPending |-> \E k \in DOMAIN openFile.pending :
                    openFile.pending[k].id = id,
   changed |-> file.pending # openFile.pending]

Removed(nodes, p) ==
  IF p = <<>> THEN nodes ELSE [nodes EXCEPT ![p[1].addr].removed = @ + 1]

CallAsynchronously(t, op, iostat) ==
  /\ fileLog.threads[t].pc = "idle"
  /\ Len(fileLog.nodes) < MaxAsync
  /\ LET file == PendingResult(openFile, iostat, Len(fileLog.nodes) + 1)
     IN PendingStep(t, file, Idle, Append(fileLog.nodes, Allocated),
                    Event(op, t, openFile.nextId, file))

CallReadAsynchronously(t, bytes, script) ==
  CallAsynchronously(t, "ReadAsynchronously",
                     ReadAsynchronously(bytes, script, 1, 0))

CallWriteAsynchronously(t, bytes, script) ==
  CallAsynchronously(t, "WriteAsynchronously",
                     WriteAsynchronously(bytes, script, 1, 0))

\* Wait up to the end of its locked section; it returns there when p is null
CallWait(t, id) ==
  /\ fileLog.threads[t].pc = "idle"
  /\ LET w == WaitLocked(openFile, id)
     IN PendingStep(t, w.file,
                    IF w.p = <<>> THEN Idle ELSE [pc |-> "Wait", p |-> w.p],
                    Removed(fileLog.nodes, w.p), Event("Wait", t, id, w.file))

\* handler.SignalError(p->ioStat); FreeMemory(p);
SignalAndFree(t, pc, then) ==
  /\ fileLog.threads[t].pc = pc
  /\ LET p == fileLog.threads[t].p[1]
     IN PendingStep(t, openFile, [pc |-> then, p |-> <<>>],
                    [fileLog.nodes EXCEPT ![p.addr].signalled = @ + 1,
                                          ![p.addr].freed = @ + 1],
                    [NoEvent EXCEPT !.op = "SignalError", !.thread = t,
                                    !.id = p.id])

WaitSignals(t) == SignalAndFree(t, "Wait", "idle")

\* One turn of WaitAll's loop up to the end of its locked section, from the
\* call (idle) or from the turn before (again); it returns when p is null
WaitAllTurn(t, from) ==
  /\ fileLog.threads[t].pc = from
  /\ LET w == WaitAllLocked(openFile)
     IN PendingStep(t, w.file,
                    IF w.p = <<>> THEN Idle ELSE [pc |-> "WaitAll", p |-> w.p],
                    Removed(fileLog.nodes, w.p),
                    Event(IF w.p = <<>> THEN "WaitAll returns" ELSE "WaitAll",
                          t, 0, w.file))

CallWaitAll(t) == WaitAllTurn(t, "idle")
WaitAllAgain(t) == WaitAllTurn(t, "again")
WaitAllSignals(t) == SignalAndFree(t, "WaitAll", "again")

\* The operating system's answers to an asynchronous transfer: the first
\* one, then end-of-file for ::pread and everything taken for ::pwrite
FirstAnswers == {<<>>} \cup {<<r>> : r \in SysResults}

NextPending ==
  \E t \in Threads :
    \/ \E bytes \in FileCounts, script \in FirstAnswers :
         CallReadAsynchronously(t, bytes, script)
    \/ \E bytes \in FileCounts, script \in FirstAnswers :
         CallWriteAsynchronously(t, bytes, script)
    \/ \E id \in Ids : CallWait(t, id)
    \/ WaitSignals(t)
    \/ CallWaitAll(t)
    \/ WaitAllAgain(t)
    \/ WaitAllSignals(t)

\* A thread inside Wait or WaitAll goes on running: it signals and frees
\* the node it holds, and WaitAll takes lock_ again
Proceeds(t) == WaitSignals(t) \/ WaitAllAgain(t) \/ WaitAllSignals(t)

SpecPending ==
  InitPending /\ [][NextPending]_vars /\ \A t \in Threads : WF_vars(Proceeds(t))

\* ------------------------------------------------------------ properties
N == Len(src)
Cur == src[N]
MaxOf(S) == IF S = {} THEN 0 ELSE CHOOSE k \in S : \A m \in S : m <= k

\* Every construct that was entered has been left.
AllLeft ==
  \A o \in DOMAIN src :
    src[o].kind \in Openers =>
      \E e \in DOMAIN src : src[e].kind \in Closers /\ src[e].opener = o

\* The constructs of the unit that are open at the traversal position
OpenConstructs == {o \in DOMAIN src : Encloses(src, o, N + 1)}

\* C1: once every entered construct has been left, the construct stack and
\* the set of active DO variables are both empty, diagnostics or not.
StackDiscipline ==
  AllLeft => constructStack = <<>> /\ DOMAIN activeDoVariables = {}

StackDisciplineWitness ==
  /\ AllLeft
  /\ N = MaxPos
  /\ messages # <<>>
  /\ \E o \in DOMAIN src : IsDoNormal(src[o])
  /\ \E o \in DOMAIN src : IsDoConcurrent(src[o])

\* C2: the construct stack holds exactly the constructs that enclose the
\* traversal position, one node each, outermost first.
StackMirrorsNesting ==
  /\ Len(constructStack) = Cardinality(OpenConstructs)
  /\ \A k \in DOMAIN constructStack :
       /\ constructStack[k].ptr \in OpenConstructs
       /\ constructStack[k] = Node(src[constructStack[k].ptr],
                                   constructStack[k].ptr)
       /\ k > 1 => constructStack[k - 1].ptr < constructStack[k].ptr
  /\ (constructStack = <<>>) <=> (OpenConstructs = {})

StackMirrorsNestingWitness ==
  /\ Len(constructStack) = 2
  /\ \E e \in DOMAIN src : src[e].kind \in Closers
  /\ constructStack[1].tag # constructStack[2].tag

\* The jump statement just visited, and the construct the matching rule
\* gives it: the innermost loop for an unnamed jump; for a named one the
\* innermost construct of that name, which for CYCLE must be a loop.
JumpVisited == N > 0 /\ Cur.kind \in {"CYCLE", "EXIT"}
IsLoopAt(k) == src[constructStack[k].ptr].kind = "DoStmt"
NameAt(k) == src[constructStack[k].ptr].name
ExpectedMatch ==
  MaxOf({k \in DOMAIN constructStack :
           IF Cur.name = NoName THEN IsLoopAt(k)
           ELSE NameAt(k) = Cur.name /\ (Cur.kind = "EXIT" \/ IsLoopAt(k))})
ForbidsLeaving(k) ==
  \/ IsDoConcurrent(src[constructStack[k].ptr])
  \/ src[constructStack[k].ptr].kind \in {"Critical", "ChangeTeam"}
\* The diagnostics of the statement just visited
OfCur == {m \in DOMAIN messages : messages[m].loc[1] = N}
LeaveMsgs(k) ==
  {m \in OfCur :
     /\ messages[m].rule[1] = "MustNotLeave"
     /\ messages[m].attach = <<StmtLoc(constructStack[k].ptr)>>}
NoMatchMsgs == {m \in OfCur : messages[m].rule[1] = "NoMatch"}

\* C3: each construct skipped before the match yields exactly one 'must
\* not leave' diagnostic if it is a DO CONCURRENT, CRITICAL or CHANGE TEAM
\* construct and none otherwise; the walk goes on after a violation.
SkippedConstructsChecked ==
  (JumpVisited /\ ExpectedMatch > 0) =>
    \A k \in (ExpectedMatch + 1)..Len(constructStack) :
      Cardinality(LeaveMsgs(k)) = IF ForbidsLeaving(k) THEN 1 ELSE 0

SkippedConstructsCheckedWitness ==
  /\ JumpVisited
  /\ ExpectedMatch = 1
  /\ Len(constructStack) = 3
  /\ ForbidsLeaving(2) /\ ForbidsLeaving(3)
  /\ Cardinality(OfCur) = 2

\* C4: the construct at which CheckNesting stops is the one the matching
\* rule names (none when the rule names none).
JumpMatchingRule == JumpVisited => matched = ExpectedMatch

JumpMatchingRuleWitness ==
  /\ JumpVisited
  /\ Cur.kind = "CYCLE" /\ Cur.name = "a"
  /\ Len(constructStack) = 2
  /\ NameAt(2) = "a" /\ ~IsLoopAt(2)
  /\ matched = 1

\* C5: when the matched construct is a DO CONCURRENT, EXIT yields exactly
\* one 'EXIT must not leave a DO CONCURRENT' for it and CYCLE yields none.
MatchedDoConcurrent ==
  (/\ JumpVisited
   /\ ExpectedMatch > 0
   /\ IsDoConcurrent(src[constructStack[ExpectedMatch].ptr])) =>
    /\ Cardinality(LeaveMsgs(ExpectedMatch))
         = IF Cur.kind = "EXIT" THEN 1 ELSE 0
    /\ \A m \in LeaveMsgs(ExpectedMatch) :
         messages[m].rule = <<"MustNotLeave", "EXIT", "DO CONCURRENT">>

MatchedDoConcurrentWitness ==
  /\ JumpVisited
  /\ Cur.kind = "EXIT"
  /\ ExpectedMatch = Len(constructStack)
  /\ ExpectedMatch > 0
  /\ IsDoConcurrent(src[Last(constructStack).ptr])
  /\ Cardinality(OfCur) = 1

\* A named jump whose name no construct on the stack has
UnmatchedNamedJump ==
  /\ JumpVisited
  /\ Cur.name # NoName
  /\ \A k \in DOMAIN constructStack : NameAt(k) # Cur.name

\* C6 as stated: such a jump yields exactly one 'no matching construct'
\* diagnostic and no other, whatever the stack holds.
UnmatchedJumpOnlyNoMatch ==
  UnmatchedNamedJump =>
    Cardinality(OfCur) = 1 /\ Cardinality(NoMatchMsgs) = 1

\* C6 amended: such a jump yields exactly one 'no matching construct'
\* diagnostic, one 'must not leave' diagnostic for each DO CONCURRENT,
\* CRITICAL or CHANGE TEAM construct on the stack, and no other.
UnmatchedJumpDiagnostics ==
  UnmatchedNamedJump =>
    /\ Cardinality(NoMatchMsgs) = 1
    /\ \A m \in NoMatchMsgs : messages[m].rule = <<"NoMatch", Cur.kind>>
    /\ \A k \in DOMAIN constructStack :
         Cardinality(LeaveMsgs(k)) = IF ForbidsLeaving(k) THEN 1 ELSE 0
    /\ Cardinality(OfCur)
         = 1 + Cardinality({k \in DOMAIN constructStack : ForbidsLeaving(k)})

UnmatchedJumpDiagnosticsWitness ==
  /\ UnmatchedNamedJump
  /\ Cur.kind = "CYCLE"
  /\ Len(constructStack) = 3
  /\ Cardinality(OfCur) = 3

\* The loop that has s as its DO variable or index-name is open at statement q
LiveAt(s, q) ==
  \E o \in DOMAIN src :
    /\ Encloses(src, o, q)
    /\ IsDoNormal(src[o]) \/ IsDoConcurrent(src[o])
    /\ \E c \in DOMAIN src[o].hdr.controls : src[o].hdr.controls[c].name = s

\* C7: an assignment is reported as a redefinition, once, exactly when its
\* variable is the DO variable or an index-name of a loop entered and not
\* yet left; not after that loop is left, and still after an inner loop
\* has been entered and left.
RedefinitionGuard ==
  (N > 0 /\ Cur.kind = "Assign") =>
    /\ Cardinality(OfCur) = IF LiveAt(Cur.syms[1], N) THEN 1 ELSE 0
    /\ \A m \in OfCur :
         /\ messages[m].rule = <<"Redefine">>
         /\ messages[m].sev = "Error"
         /\ messages[m].sym = Cur.syms[1]

RedefinitionGuardWitness ==
  /\ N = 4
  /\ Cur.kind = "Assign"
  /\ src[3].kind = "EndDo" /\ src[3].opener = 2
  /\ LiveAt(Cur.syms[1], N)
  /\ Cardinality(OfCur) = 1

\* C8: a live DO variable passed whole as an actual argument yields an
\* error if the dummy is INTENT(OUT), only a warning if it is
\* INTENT(INOUT), and nothing if it is INTENT(IN) or has no intent.
ArgumentIntentRule ==
  (/\ N > 0
   /\ Cur.kind = "Call"
   /\ Cur.intents[1].whole
   /\ LiveAt(Cur.syms[1], N)) =>
    CASE Cur.intents[1].intent = "Out" ->
           /\ Cardinality(OfCur) = 1
           /\ \A m \in OfCur : /\ messages[m].rule = <<"Redefine">>
                                /\ messages[m].sev = "Error"
      [] Cur.intents[1].intent = "InOut" ->
           /\ Cardinality(OfCur) = 1
           /\ \A m \in OfCur : /\ messages[m].rule = <<"PossibleRedefine">>
                                /\ messages[m].sev = "Warning"
      [] OTHER -> OfCur = {}

ArgumentIntentRuleWitness ==
  /\ N > 0
  /\ Cur.kind = "Call"
  /\ Cur.intents[1] = Arg("InOut", TRUE)
  /\ LiveAt(Cur.syms[1], N)
  /\ \E m \in OfCur : messages[m].sev = "Warning"

\* The diagnostics of the checks of the DO CONCURRENT at statement p
HeaderRules ==
  {"MaskImpureProcedure", "ReferencesIndexName", "ConcurrentStepZero",
   "MaskReferencesLocal", "ExprReferencesLocal", "OnlyOneDefaultNone"}
\* (the body rules whose diagnostic is attached to the DO CONCURRENT)
BodyRules == {"ReturnInDoConcurrent", "ImpureCall", "ImageControl"}
LabelRules == {"ControlFlowEscapes"}
DoNormalRules ==
  {"DoControlsShouldBeInteger", "DoControlMustBeIntegerVariable", "DoStepZero"}
HeaderMsgs(p) ==
  {m \in DOMAIN messages :
     messages[m].rule[1] \in HeaderRules /\ messages[m].loc[1] = p}
WalkMsgs(p, rules) ==
  {m \in DOMAIN messages :
     /\ messages[m].rule[1] \in rules
     /\ messages[m].attach # <<>>
     /\ Last(messages[m].attach) = StmtLoc(p)}
DoConcurrents == {p \in DOMAIN src : IsDoConcurrent(src[p])}

\* C9 as stated: the diagnostics of the header validation of a DO
\* CONCURRENT precede those of the body and label walks of that construct.
HeaderBeforeBody ==
  \A p \in DoConcurrents :
    \A h \in HeaderMsgs(p), b \in WalkMsgs(p, BodyRules \cup LabelRules) :
      h < b

\* C9 amended: on leaving a DO CONCURRENT the diagnostics of the body
\* enforcer walk come first, then those of the label enforcer walk, then
\* those of the header validation.
BodyBeforeHeader ==
  \A p \in DoConcurrents :
    /\ \A b \in WalkMsgs(p, BodyRules), l \in WalkMsgs(p, LabelRules) : b < l
    /\ \A l \in WalkMsgs(p, BodyRules \cup LabelRules), h \in HeaderMsgs(p) :
         l < h

BodyBeforeHeaderWitness ==
  \E p \in DoConcurrents :
    /\ WalkMsgs(p, BodyRules) # {}
    /\ WalkMsgs(p, LabelRules) # {}
    /\ HeaderMsgs(p) # {}

\* C10 as stated: a diagnostic whose primary statement comes first in the
\* source is appended first.
SinkInSourceOrder ==
  \A a, b \in DOMAIN messages :
    messages[a].loc[1] < messages[b].loc[1] => a < b

\* The construct whose check produced a diagnostic, and the statement at
\* which a diagnostic is produced: its own statement for the diagnostics
\* of a statement visit, the END statement of the construct for the
\* diagnostics of a construct check.
CheckRules == HeaderRules \cup BodyRules \cup LabelRules \cup DoNormalRules
CheckedConstruct(m) ==
  IF messages[m].rule[1] \in BodyRules \cup LabelRules
  THEN Last(messages[m].attach)[1]
  ELSE messages[m].loc[1]
EndsOf(p) ==
  {e \in DOMAIN src : src[e].kind \in Closers /\ src[e].opener = p}
ProducedAt(m) ==
  IF messages[m].rule[1] \in CheckRules
  THEN MaxOf(EndsOf(CheckedConstruct(m)))
  ELSE messages[m].loc[1]

\* C10 amended: the sink is in the order of the statements at which the
\* diagnostics are produced: jump and redefinition diagnostics at their own
\* statement, the diagnostics of a DO or DO CONCURRENT check at the END
\* statement of that construct (after those of the statements of its body).
SinkInTraversalOrder ==
  /\ \A m \in DOMAIN messages :
       messages[m].rule[1] \in CheckRules => EndsOf(CheckedConstruct(m)) # {}
  /\ \A a, b \in DOMAIN messages : ProducedAt(a) < ProducedAt(b) => a < b

SinkInTraversalOrderWitness ==
  \E a, b \in DOMAIN messages :
    /\ a < b
    /\ messages[a].rule = <<"Redefine">>
    /\ messages[b].rule = <<"ReturnInDoConcurrent">>
    /\ messages[b].loc[1] < messages[a].loc[1]

\* The loops that have been left, the END statement of each, and the
\* RETURN statements of the unit
Closed(p) == EndsOf(p) # {}
ClosedDoConcurrents == {p \in DoConcurrents : Closed(p)}
Returns == {q \in DOMAIN src : src[q].kind = "Return"}
EnclosingDoConcurrents(q) == {p \in DoConcurrents : Encloses(src, p, q)}
ReturnMsgsAt(q) ==
  {m \in DOMAIN messages :
     /\ messages[m].loc = StmtLoc(q)
     /\ messages[m].rule = <<"ReturnInDoConcurrent">>}
ReturnMsgs(q, p) ==
  {m \in ReturnMsgsAt(q) : messages[m].attach = <<StmtLoc(p)>>}

\* C11 as stated: a RETURN in the body of a DO CONCURRENT nested in another
\* DO CONCURRENT is reported exactly once, by the check of the inner loop,
\* once both loops have been left.
NestedReturnReportedOnce ==
  \A q \in Returns :
    (/\ Cardinality(EnclosingDoConcurrents(q)) >= 2
     /\ EnclosingDoConcurrents(q) \subseteq ClosedDoConcurrents) =>
      /\ Cardinality(ReturnMsgsAt(q)) = 1
      /\ \A m \in ReturnMsgsAt(q) :
           messages[m].attach = <<StmtLoc(MaxOf(EnclosingDoConcurrents(q)))>>

\* The unit  DO CONCURRENT (i = 1:10); RETURN; END DO
SingleReturnLoop ==
  src = <<DoStmt(NoName, "Concurrent",
                 Header(<<Control(<<"i", 1>>, IntExpr, IntExpr, NoExpr)>>,
                        NoExpr, <<>>)),
          Simple("Return"),
          EndStmt("EndDo", 1)>>

IndexNamesOf(tree, p) ==
  {tree[p].hdr.controls[c].name : c \in DOMAIN tree[p].hdr.controls} \ {NoSym}
BodyOf(p, to) == (p + 1)..to

\* The construct a CYCLE or EXIT at statement q belongs to (0: none)
OpenAt(tree, q) == {o \in 1..(q - 1) : Encloses(tree, o, q)}
MatchOf(tree, q) ==
  MaxOf({o \in OpenAt(tree, q) :
           IF tree[q].name = NoName THEN tree[o].kind = "DoStmt"
           ELSE /\ tree[o].name = tree[q].name
                /\ (tree[q].kind = "EXIT" \/ tree[o].kind = "DoStmt")})
LeavesLoop(tree, q, p) ==
  /\ tree[q].kind \in {"CYCLE", "EXIT"}
  /\ \/ MatchOf(tree, q) < p
     \/ MatchOf(tree, q) = p /\ tree[q].kind = "EXIT"

ProcsAt(tree, q) ==
  CASE tree[q].kind = "Call" -> {tree[q].proc}
    [] tree[q].kind = "DoStmt" ->
         {HeaderProcs(tree[q])[k] : k \in DOMAIN HeaderProcs(tree[q])}
    [] OTHER -> {}
HasImpureCall(tree, q) == \E r \in ProcsAt(tree, q) : ~IsPureProcedure(r)
HasEarlyExit(tree, q, p) == tree[q].kind = "Return" \/ LeavesLoop(tree, q, p)
HasPolymorphicDeallocation(tree, q) ==
  \/ /\ tree[q].kind = "Assign"
     /\ MightDeallocatePolymorphic(tree[q].syms[1], TRUE)
  \/ /\ tree[q].kind = "Deallocate"
     /\ \E k \in DOMAIN tree[q].syms :
          \/ IsPolymorphicType(tree[q].syms[k])
          \/ MightDeallocatePolymorphic(tree[q].syms[k], FALSE)
  \/ /\ tree[q].kind = "EndBlock"
     /\ \E k \in DOMAIN tree[tree[q].opener].syms :
          /\ IsAllocatable(tree[tree[q].opener].syms[k])
          /\ MightDeallocatePolymorphic(tree[tree[q].opener].syms[k], FALSE)
HasImageControl(tree, q) ==
  tree[q].kind \in ImageControlStmts \cup {"Critical", "ChangeTeam"}
HasAdvance(tree, q) ==
  \E k \in DOMAIN tree[q].io : tree[q].io[k] = "Advance"
HasHaltingMode(tree, q) ==
  \E r \in ProcsAt(tree, q) :
    FromIeeeExceptions(r) /\ SourceOf(r) = "ieee_set_halting_mode"
BranchesOut(tree, q, p, to) ==
  tree[q].target # 0 /\ tree[q].target \notin BodyLabels(tree, p + 1, to)
RedefinesIndexName(tree, q, p) ==
  \/ tree[q].kind = "Assign" /\ tree[q].syms[1] \in IndexNamesOf(tree, p)
  \/ /\ tree[q].kind = "Call"
     /\ \E k \in DOMAIN tree[q].syms :
          /\ tree[q].intents[k].intent \in {"Out", "InOut"}
          /\ tree[q].intents[k].whole
          /\ tree[q].syms[k] \in IndexNamesOf(tree, p)
  \/ /\ IsDoNormal(tree[q])
     /\ GetDoVariable(tree[q]) \in IndexNamesOf(tree, p)

\* The limit and step expressions of a concurrent header
LimitExprs(hdr) ==
  UNION {{hdr.controls[c].lower, hdr.controls[c].upper, hdr.controls[c].step} :
           c \in DOMAIN hdr.controls}
Mentions(expr, S) == GatherSymbolsFromExpression(expr) \cap S # {}
LimitMentionsIndexName(tree, p) ==
  \E e \in LimitExprs(tree[p].hdr) : Mentions(e, IndexNamesOf(tree, p))
HasZeroStep(hdr) ==
  \E c \in DOMAIN hdr.controls :
    hdr.controls[c].step.present /\ hdr.controls[c].step.zero
MaskIsImpure(hdr) ==
  \E r \in GatherSymbolsFromExpression(hdr.mask) :
    IsProcedure(r) /\ ~IsPureProcedure(r)
HeaderMentionsLocal(tree, p) ==
  \E e \in LimitExprs(tree[p].hdr) \cup {tree[p].hdr.mask} :
    Mentions(e, GatherLocals(tree, p, tree[p].hdr.locality))
HasDefaultNone(hdr) ==
  \E k \in DOMAIN hdr.locality : hdr.locality[k].kind = "DefaultNone"

\* The conditions C13 names
CleanAsStated(tree, p, to) ==
  /\ \A q \in BodyOf(p, to) :
       /\ ~HasImpureCall(tree, q)
       /\ ~HasEarlyExit(tree, q, p)
       /\ ~HasPolymorphicDeallocation(tree, q)
  /\ ~LimitMentionsIndexName(tree, p)
  /\ ~Mentions(tree[p].hdr.mask, IndexNamesOf(tree, p))

\* The conditions the checks of a DO CONCURRENT test
CleanLoop(tree, p, to) ==
  /\ \A q \in BodyOf(p, to) :
       /\ ~HasImpureCall(tree, q)
       /\ ~HasEarlyExit(tree, q, p)
       /\ ~HasPolymorphicDeallocation(tree, q)
       /\ ~HasImageControl(tree, q)
       /\ ~HasAdvance(tree, q)
       /\ ~HasHaltingMode(tree, q)
       /\ ~BranchesOut(tree, q, p, to)
       /\ ~RedefinesIndexName(tree, q, p)
  /\ ~LimitMentionsIndexName(tree, p)
  /\ ~HasZeroStep(tree[p].hdr)
  /\ ~MaskIsImpure(tree[p].hdr)
  /\ ~HeaderMentionsLocal(tree, p)
  /\ ~HasDefaultNone(tree[p].hdr)

\* The diagnostics that name the loop at statement p: those at its header,
\* those attached to it, and the redefinitions of its index-names
LoopMsgs(msgs, p) ==
  {m \in DOMAIN msgs :
     \/ msgs[m].loc[1] = p
     \/ \E a \in DOMAIN msgs[m].attach : msgs[m].attach[a] = StmtLoc(p)
     \/ msgs[m].sym # NoSym /\ msgs[m].sym[2] = p}

\* The step that leaves the DO CONCURRENT at the top of the stack
LeavesDoConcurrent ==
  /\ Len(src') = N + 1
  /\ src'[N + 1].kind = "EndDo"
  /\ IsDoConcurrent(src[src'[N + 1].opener])
LoopLeft == src'[N + 1].opener

\* C13 as stated: the check of a DO CONCURRENT without impure calls, early
\* exits and polymorphic deallocation in its body and without index-names
\* in its header expressions adds no diagnostic, and none names the loop.
StatedCleanLoopSilent ==
  [][(LeavesDoConcurrent /\ CleanAsStated(src, LoopLeft, N)) =>
       (messages' = messages /\ LoopMsgs(messages', LoopLeft) = {})]_vars

\* C13 amended: it adds none, and none names the loop, when moreover the
\* body (at any depth) has no image control statement, ADVANCE specifier,
\* reference to ieee_set_halting_mode, branch out of the body or
\* redefinition of an index-name, and the header has no zero step, impure
\* procedure in the mask, LOCAL variable in an expression or DEFAULT(NONE).
CleanLoopSilent ==
  [][(LeavesDoConcurrent /\ CleanLoop(src, LoopLeft, N)) =>
       (messages' = messages /\ LoopMsgs(messages', LoopLeft) = {})]_vars

CleanLoopSilentWitness ==
  /\ N = MaxEnd
  /\ Cur.kind = "EndDo"
  /\ IsDoConcurrent(src[Cur.opener])
  /\ CleanLoop(src, Cur.opener, N - 1)
  /\ \E q \in BodyOf(Cur.opener, N - 1) : src[q].kind = "Call"
  /\ \E q \in BodyOf(Cur.opener, N - 1) : IsDoConcurrent(src[q])
  /\ messages = <<>>

\* The diagnostics of one rule at one location
RuleMsgsAt(loc, rule) ==
  {m \in DOMAIN messages :
     messages[m].loc = loc /\ messages[m].rule[1] = rule}

\* C14: the check of a DO CONCURRENT that has been left gives exactly one
\* mask-purity diagnostic, an Error naming an impure procedure of the mask,
\* if the mask references an impure procedure (however often), and none if
\* it references only pure procedures or none.
MaskPurityOnce ==
  \A p \in ClosedDoConcurrents :
    /\ Cardinality(RuleMsgsAt(StmtLoc(p), "MaskImpureProcedure"))
         = IF MaskIsImpure(src[p].hdr) THEN 1 ELSE 0
    /\ \A m \in RuleMsgsAt(StmtLoc(p), "MaskImpureProcedure") :
         /\ messages[m].sev = "Error"
         /\ messages[m].sym \in GatherSymbolsFromExpression(src[p].hdr.mask)
         /\ ~IsPureProcedure(messages[m].sym)

MaskPurityOnceWitness ==
  \E p \in ClosedDoConcurrents :
    /\ Cardinality({k \in DOMAIN src[p].hdr.mask.occ :
                       src[p].hdr.mask.occ[k] = <<"f", 0>>}) = 2
    /\ Cardinality(RuleMsgsAt(StmtLoc(p), "MaskImpureProcedure")) = 1

\* The symbols of the LOCAL locality-specs of the loop at p, the controls
\* whose step references y, and the header expressions other than steps
LocalsOf(p) ==
  {FindSymbol(src, n, EnclosingScopes(src, p)) :
     n \in UNION {src[p].hdr.locality[k].names :
                    k \in {l \in DOMAIN src[p].hdr.locality :
                             src[p].hdr.locality[l].kind = "Local"}}}
StepsWith(p, y) ==
  {c \in DOMAIN src[p].hdr.controls :
     /\ src[p].hdr.controls[c].step.present
     /\ Mentions(src[p].hdr.controls[c].step, {y})}
LimitsAndMask(hdr) ==
  UNION {{hdr.controls[c].lower, hdr.controls[c].upper} :
           c \in DOMAIN hdr.controls} \cup {hdr.mask}
NamingAt(p, y) ==
  {m \in DOMAIN messages :
     /\ messages[m].loc[1] = p
     /\ messages[m].rule[1] \in HeaderRules
     /\ messages[m].sym = y}

ExprPlaces(p) ==
  UNION {{[loc |-> LowerLoc(p, c), expr |-> src[p].hdr.controls[c].lower],
          [loc |-> UpperLoc(p, c), expr |-> src[p].hdr.controls[c].upper],
          [loc |-> StepLoc(p, c), expr |-> src[p].hdr.controls[c].step]} :
           c \in DOMAIN src[p].hdr.controls}
IndexCollisionsAt(loc) == RuleMsgsAt(loc, "ReferencesIndexName")

\* C18 as stated: every lower-limit, upper-limit and step expression, and
\* the mask, that references an index-name of its header is reported.
IndexCollisionWithMask ==
  \A p \in ClosedDoConcurrents :
    /\ \A x \in ExprPlaces(p) :
         Mentions(x.expr, IndexNamesOf(src, p)) =>
           IndexCollisionsAt(x.loc) # {}
    /\ Mentions(src[p].hdr.mask, IndexNamesOf(src, p)) =>
         \E m \in DOMAIN messages :
           /\ messages[m].loc[1] = p
           /\ messages[m].rule = <<"ReferencesIndexName">>
           /\ messages[m].sym \in GatherSymbolsFromExpression(src[p].hdr.mask)

\* C18 amended: a lower-limit, upper-limit or step expression gets one
\* index-collision Error naming an index-name it references exactly when
\* it references an index-name of its header, its own control's or another
\* control's; the mask is not checked and gets none.
IndexCollision ==
  \A p \in ClosedDoConcurrents :
    /\ \A x \in ExprPlaces(p) :
         /\ Cardinality(IndexCollisionsAt(x.loc))
              = IF Mentions(x.expr, IndexNamesOf(src, p)) THEN 1 ELSE 0
         /\ \A m \in IndexCollisionsAt(x.loc) :
              /\ messages[m].sev = "Error"
              /\ messages[m].sym \in IndexNamesOf(src, p)
              /\ Mentions(x.expr, {messages[m].sym})
    /\ IndexCollisionsAt(MaskLoc(p)) = {}
    /\ IndexCollisionsAt(StmtLoc(p)) = {}

IndexCollisionWitness ==
  \E p \in ClosedDoConcurrents :
    /\ Len(src[p].hdr.controls) = 2
    /\ Mentions(src[p].hdr.controls[2].upper, {src[p].hdr.controls[1].name})
    /\ Cardinality(IndexCollisionsAt(UpperLoc(p, 2))) = 1

\* C19 as stated: every control of a DO CONCURRENT that has been left whose
\* step is known to be zero has exactly one zero-step Error, resolved
\* index-names or not.
ZeroStepAlwaysError ==
  \A p \in ClosedDoConcurrents :
    \A c \in DOMAIN src[p].hdr.controls :
      (src[p].hdr.controls[c].step.present
         /\ src[p].hdr.controls[c].step.zero) =>
        /\ Cardinality(RuleMsgsAt(StepLoc(p, c), "ConcurrentStepZero")) = 1
        /\ \A m \in RuleMsgsAt(StepLoc(p, c), "ConcurrentStepZero") :
             messages[m].sev = "Error"

\* C20 as stated: the diagnostic for a second DEFAULT(NONE) in the header
\* of a DO CONCURRENT that has been left is an Error.
DuplicateDefaultNoneIsError ==
  \A p \in ClosedDoConcurrents :
    Cardinality({k \in DOMAIN src[p].hdr.locality :
                   src[p].hdr.locality[k].kind = "DefaultNone"}) > 1 =>
      /\ RuleMsgsAt(StmtLoc(p), "OnlyOneDefaultNone") # {}
      /\ \A m \in RuleMsgsAt(StmtLoc(p), "OnlyOneDefaultNone") :
           messages[m].sev = "Error"

\* The diagnostics of the check of the counted DO at statement p, and the
\* counted loops left whose variable, limits and step (if any) are INTEGER
NormalMsgs(p) ==
  {m \in DOMAIN messages :
     messages[m].loc[1] = p /\ messages[m].rule[1] \in DoNormalRules}
IntegerLoops ==
  {p \in DOMAIN src :
     /\ IsDoNormal(src[p])
     /\ Closed(p)
     /\ IsVariableName(GetDoVariable(src[p]))
     /\ SymType(GetDoVariable(src[p])) = "Integer"
     /\ \A e \in LimitExprs(src[p].hdr) : e.type = "Integer"}
StepIsZero(p) ==
  src[p].hdr.controls[1].step.present /\ src[p].hdr.controls[1].step.zero
StrictConformance == config.warnOnNonstandardUsage

\* C15 as stated: the check of such a loop gives no diagnostic when the
\* step is not zero and exactly one when it is the literal zero, and that
\* one is an Error in strict-conformance mode.
ZeroStepErrorWhenStrict ==
  \A p \in IntegerLoops :
    /\ ~StepIsZero(p) => NormalMsgs(p) = {}
    /\ StepIsZero(p) =>
         /\ Cardinality(NormalMsgs(p)) = 1
         /\ StrictConformance =>
              \A m \in NormalMsgs(p) : messages[m].sev = "Error"

\* C15 amended: none when the step is not zero; exactly one when it is the
\* literal zero, at the step expression, and that one is a Warning under
\* every setting of the conformance flags.
ZeroStepWarning ==
  \A p \in IntegerLoops :
    /\ ~StepIsZero(p) => NormalMsgs(p) = {}
    /\ StepIsZero(p) =>
         /\ Cardinality(NormalMsgs(p)) = 1
         /\ \A m \in NormalMsgs(p) :
              /\ messages[m].rule = <<"DoStepZero">>
              /\ messages[m].loc = StepLoc(p, 1)
              /\ messages[m].sev = "Warning"

ZeroStepWarningWitness ==
  /\ StrictConformance
  /\ \E p \in IntegerLoops : StepIsZero(p) /\ Cardinality(NormalMsgs(p)) = 1
  /\ \E p \in IntegerLoops :
       src[p].hdr.controls[1].step.present /\ ~StepIsZero(p)

\* C17: a second run of the pass over the same complete unit, begun in
\* the state the first run ended in, starts and ends with the empty
\* construct stack and no active DO variable and produces the same list of
\* diagnostics in the same order as the first.
SecondRun == RunPass(config, src, 1, constructStack, activeDoVariables)
NoneCount(hdr) ==
  Cardinality({k \in DOMAIN hdr.locality :
                 hdr.locality[k].kind = "DefaultNone"})
DuplicateMsgs(p) == RuleMsgsAt(StmtLoc(p), "OnlyOneDefaultNone")

\* C21: the header of a DO CONCURRENT that has been left gets exactly one
\* duplicate-DEFAULT(NONE) diagnostic when it holds two or more
\* DEFAULT(NONE), however many, and none when it holds at most one.
DuplicateDefaultNoneOnce ==
  \A p \in ClosedDoConcurrents :
    Cardinality(DuplicateMsgs(p))
      = IF NoneCount(src[p].hdr) >= 2 THEN 1 ELSE 0

DuplicateDefaultNoneOnceWitness ==
  \E p \in ClosedDoConcurrents :
    NoneCount(src[p].hdr) = 3 /\ Cardinality(DuplicateMsgs(p)) = 1

\* The body of a loop that has been left, the references in a statement to
\* a variable that comes from outside the loop at p, and the diagnostics of
\* the DEFAULT(NONE) rule
EndOfLoop(p) == MaxOf(EndsOf(p))
BodyStmts(p) == (p + 1)..(EndOfLoop(p) - 1)
StrictAncestor(o, p) == o # p /\ (o = 0 \/ o \in EnclosingScopes(src, p))
OuterRefs(q, p) ==
  {k \in DOMAIN NamesOf(src[q]) :
     /\ NamesOf(src[q])[k] # NoSym
     /\ IsVariableName(NamesOf(src[q])[k])
     /\ StrictAncestor(NamesOf(src[q])[k][2], p)}
VarRefMsgs(q) ==
  {m \in DOMAIN messages :
     messages[m].loc[1] = q /\ messages[m].rule = <<"NotInLocalitySpec">>}
WalkRan(p) == \E q \in BodyStmts(p) : VarRefMsgs(q) # {}
HasOuterRef(p) == \E q \in BodyStmts(p) : OuterRefs(q, p) # {}
\* No other DO CONCURRENT with DEFAULT(NONE) encloses p or lies in its body
OnlyDefaultNoneLoop(p) ==
  \A o \in DoConcurrents \ {p} :
    HasDefaultNone(src[o].hdr) =>
      ~Encloses(src, o, p) /\ ~(p < o /\ o < EndOfLoop(p))

\* C22 as stated: the body of a DO CONCURRENT that has been left is walked
\* (its references to outer variables are reported) exactly when the
\* header holds exactly one DEFAULT(NONE).
WalkIffExactlyOneDefaultNone ==
  \A p \in ClosedDoConcurrents :
    (OnlyDefaultNoneLoop(p) /\ HasOuterRef(p)) =>
      (WalkRan(p) <=> NoneCount(src[p].hdr) = 1)

\* C22 amended: it is walked exactly when the header holds at least one
\* DEFAULT(NONE), two or more included.
WalkIffSomeDefaultNone ==
  \A p \in ClosedDoConcurrents :
    /\ (OnlyDefaultNoneLoop(p) /\ HasOuterRef(p)) =>
         (WalkRan(p) <=> NoneCount(src[p].hdr) >= 1)
    /\ (OnlyDefaultNoneLoop(p) /\ NoneCount(src[p].hdr) = 0) => ~WalkRan(p)

WalkIffSomeDefaultNoneWitness ==
  \E p \in ClosedDoConcurrents :
    /\ OnlyDefaultNoneLoop(p)
    /\ HasOuterRef(p)
    /\ NoneCount(src[p].hdr) = 2
    /\ WalkRan(p)

\* C23: the DEFAULT(NONE) diagnostics at a statement that name a variable y
\* are one Error for each reference to y in the statement and each DO
\* CONCURRENT with DEFAULT(NONE) that has been left, has the statement in its
\* body and has the owner of y as a strict ancestor of its scope; a
\* variable of the loop's own scope or of a scope inside it gets none.
DefaultNoneReferences ==
  \A q \in DOMAIN src :
    /\ \A m \in VarRefMsgs(q) :
         /\ messages[m].sev = "Error"
         /\ IsVariableName(messages[m].sym)
    /\ \A y \in {NamesOf(src[q])[k] : k \in DOMAIN NamesOf(src[q])}
                 \cup {messages[m].sym : m \in VarRefMsgs(q)} :
         Cardinality({m \in VarRefMsgs(q) : messages[m].sym = y})
           = Cardinality(
               {pk \in {p \in ClosedDoConcurrents :
                          /\ HasDefaultNone(src[p].hdr)
                          /\ q \in BodyStmts(p)} \X DOMAIN NamesOf(src[q]) :
                  /\ NamesOf(src[q])[pk[2]] = y
                  /\ pk[2] \in OuterRefs(q, pk[1])})

DefaultNoneReferencesWitness ==
  \E p \in ClosedDoConcurrents, q \in DOMAIN src :
    /\ NoneCount(src[p].hdr) = 1
    /\ q \in BodyStmts(p)
    /\ IsDoConcurrent(src[q])
    /\ Cardinality(OuterRefs(q, p)) = 2
    /\ \E k \in DOMAIN NamesOf(src[q]) : NamesOf(src[q])[k] = <<"i", p>>
    /\ Cardinality(VarRefMsgs(q)) = 2

\* ---- the diagnostics of the body enforcer
\* The loops that have been left with statement q in their body, the
\* diagnostics at q that carry the note of the loop at p, and the
\* deallocation diagnostics at q
ClosedAround(q) == {p \in ClosedDoConcurrents : q \in BodyStmts(p)}
NoteRules ==
  {"ReturnInDoConcurrent", "ImpureCall", "IeeeSetHaltingMode", "ImageControl",
   "AdvanceInDoConcurrent"}
DeallocRules ==
  {"DeallocByBlockExit", "DeallocByAssignment", "DeallocInDoConcurrent"}
NotedMsgs(q, p) ==
  {m \in DOMAIN messages :
     /\ messages[m].loc[1] = q
     /\ messages[m].rule[1] \in NoteRules
     /\ messages[m].attach # <<>>
     /\ Last(messages[m].attach) = StmtLoc(p)}
DeallocMsgsAt(q) ==
  {m \in DOMAIN messages :
     messages[m].loc[1] = q /\ messages[m].rule[1] \in DeallocRules}
\* An entity that is polymorphic or has a polymorphic allocatable ultimate
\* component, and the entities of the block that ends at statement q
HoldsPolymorphic(y) ==
  y[1] \in PolyAllocNames \/ \E u \in UltimateComponents(y) : u.polyAlloc
BlockEntities(q) ==
  {src[src[q].opener].syms[k] : k \in DOMAIN src[src[q].opener].syms}

\* C24 as stated: for each loop that walks it, a statement that is one node
\* of the body rules (a call, RETURN, SYNC ALL, a data transfer with one
\* specifier, an assignment, a DEALLOCATE, the end of a BLOCK) gets at most
\* one diagnostic.
OneDiagnosticPerNode ==
  \A q \in DOMAIN src :
    /\ \A p \in ClosedAround(q) : Cardinality(NotedMsgs(q, p)) <= 1
    /\ Cardinality(DeallocMsgsAt(q)) <= Cardinality(ClosedAround(q))

\* C24 amended: for each loop that walks it, a RETURN, an image control
\* statement and an ADVANCE specifier get one diagnostic and an assignment
\* at most one; a procedure designator gets one if the procedure is impure
\* and one more if it is written ieee_set_halting_mode and comes from
\* ieee_exceptions; a DEALLOCATE gets one for each object that holds a
\* polymorphic entity, the end of a BLOCK one for each such allocatable
\* entity of the block.
DiagnosticsPerNode ==
  \A q \in DOMAIN src :
    /\ \A p \in ClosedAround(q) :
         Cardinality(NotedMsgs(q, p))
           = CASE src[q].kind \in {"Return", "SyncAll"} -> 1
               [] src[q].kind = "Write" ->
                    Cardinality({k \in DOMAIN src[q].io :
                                   src[q].io[k] = "Advance"})
               [] src[q].kind = "Call" ->
                    (IF IsPureProcedure(src[q].proc) THEN 0 ELSE 1)
                      + (IF /\ FromIeeeExceptions(src[q].proc)
                            /\ SourceOf(src[q].proc) = "ieee_set_halting_mode"
                         THEN 1 ELSE 0)
               [] OTHER -> 0
    /\ src[q].kind # "Assign" =>
         Cardinality(DeallocMsgsAt(q))
           = Cardinality(ClosedAround(q))
               * (CASE src[q].kind = "Deallocate" ->
                         Cardinality({k \in DOMAIN src[q].syms :
                                        HoldsPolymorphic(src[q].syms[k])})
                    [] src[q].kind = "EndBlock" ->
                         Cardinality({y \in BlockEntities(q) :
                                        /\ IsAllocatable(y)
                                        /\ HoldsPolymorphic(y)})
                    [] OTHER -> 0)
    /\ src[q].kind = "Assign" =>
         Cardinality(DeallocMsgsAt(q)) <= Cardinality(ClosedAround(q))

DiagnosticsPerNodeWitness ==
  \E q, r \in DOMAIN src :
    /\ src[q].kind = "Deallocate"
    /\ Cardinality(ClosedAround(q)) = 1
    /\ Cardinality(DeallocMsgsAt(q)) = 2
    /\ src[r].kind = "Call"
    /\ \E p \in ClosedAround(r) : Cardinality(NotedMsgs(r, p)) = 2

\* The diagnostics of the body enforcer, and the headers of the DO
\* CONCURRENT constructs around a statement
BodyEnforcerMsgs ==
  {m \in DOMAIN messages :
     messages[m].rule[1] \in NoteRules \cup DeallocRules}
HeadersAround(q) == {StmtLoc(p) : p \in {o \in DoConcurrents : o < q}}

\* C25 as stated: every diagnostic of the body enforcer carries a note at
\* the header of a DO CONCURRENT around its statement.
EveryBodyDiagnosticNotesDo ==
  \A m \in BodyEnforcerMsgs :
    \E a \in DOMAIN messages[m].attach :
      messages[m].attach[a] \in HeadersAround(messages[m].loc[1])

\* C25 amended: the diagnostics for RETURN, an image control statement, an
\* impure call, ieee_set_halting_mode and ADVANCE carry one note, at the
\* header of a DO CONCURRENT that has their statement in its body; the three
\* deallocation diagnostics carry one note, at the declaration of the
\* entity they name, and none at a DO CONCURRENT header.
BodyDiagnosticNotes ==
  \A m \in BodyEnforcerMsgs :
    IF messages[m].rule[1] \in NoteRules
    THEN \E p \in ClosedDoConcurrents :
           /\ messages[m].attach = <<StmtLoc(p)>>
           /\ p < messages[m].loc[1]
           /\ messages[m].loc[1] < EndOfLoop(p)
    ELSE /\ messages[m].sym # NoSym
         /\ messages[m].attach = <<DeclLoc(messages[m].sym)>>
         /\ \A p \in DoConcurrents : messages[m].attach # <<StmtLoc(p)>>

BodyDiagnosticNotesWitness ==
  /\ \E m \in BodyEnforcerMsgs : messages[m].rule = <<"DeallocByBlockExit">>
  /\ \E m \in BodyEnforcerMsgs : messages[m].rule = <<"AdvanceInDoConcurrent">>

\* The assignment rule in words: the variable is polymorphic and
\* allocatable itself, or its type has an ultimate component that is
\* polymorphic and allocatable and not a coarray
AssignmentDeallocates(y) ==
  \/ y[1] \in PolyAllocNames
  \/ \E u \in UltimateComponents(y) : u.polyAlloc /\ ~u.coarray
OnlyCoarrayComponents(y) ==
  /\ ~AssignmentDeallocates(y)
  /\ \E u \in UltimateComponents(y) : u.polyAlloc /\ u.coarray
MsgsNaming(q, rule, y) ==
  {m \in DOMAIN messages :
     /\ messages[m].loc[1] = q
     /\ messages[m].rule = <<rule>>
     /\ messages[m].sym = y}

\* C26: each loop that has been left reports an assignment in its body,
\* once, exactly when the assignment rule holds of the left-hand variable; a
\* variable whose only polymorphic allocatable components are coarrays is
\* never reported for an assignment, and is reported for a DEALLOCATE and
\* for the exit of the block that declares it.
AssignmentRule ==
  \A q \in DOMAIN src :
    /\ src[q].kind = "Assign" =>
         /\ Cardinality(MsgsNaming(q, "DeallocByAssignment", src[q].syms[1]))
              = IF AssignmentDeallocates(src[q].syms[1])
                THEN Cardinality(ClosedAround(q)) ELSE 0
         /\ DeallocMsgsAt(q)
              = MsgsNaming(q, "DeallocByAssignment", src[q].syms[1])
    /\ src[q].kind = "Deallocate" =>
         \A k \in DOMAIN src[q].syms :
           (OnlyCoarrayComponents(src[q].syms[k]) /\ ClosedAround(q) # {}) =>
             MsgsNaming(q, "DeallocInDoConcurrent", src[q].syms[k]) # {}
    /\ src[q].kind = "EndBlock" =>
         \A y \in BlockEntities(q) :
           (/\ OnlyCoarrayComponents(y)
            /\ IsAllocatable(y)
            /\ ClosedAround(q) # {}) =>
             MsgsNaming(q, "DeallocByBlockExit", y) # {}

AssignmentRuleWitness ==
  \E q, r \in DOMAIN src :
    /\ src[q].kind = "Assign"
    /\ OnlyCoarrayComponents(src[q].syms[1])
    /\ ClosedAround(q) # {}
    /\ DeallocMsgsAt(q) = {}
    /\ src[r].kind = "Deallocate"
    /\ MsgsNaming(r, "DeallocInDoConcurrent", src[q].syms[1]) # {}
    /\ \E a \in DOMAIN src :
         /\ src[a].kind = "Assign"
         /\ src[a].syms[1][1] = "d"
         /\ DeallocMsgsAt(a) # {}

\* ---- the type rule of the counted DO
\* The counted loops that have been left, the places of the DO variable
\* and of the expressions that are present, and the type diagnostics
ClosedDoNormals == {p \in DOMAIN src : IsDoNormal(src[p]) /\ Closed(p)}
TypeRules == {"DoControlsShouldBeInteger", "DoControlMustBeIntegerVariable"}
TypeMsgsAt(loc) ==
  {m \in DOMAIN messages :
     messages[m].loc = loc /\ messages[m].rule[1] \in TypeRules}
VariableType(y) ==
  IF y = NoSym THEN "Unresolved"
  ELSE IF ~IsVariableName(y) THEN "NotAVariable"
  ELSE SymType(y)
TypedPlaces(p) ==
  LET c == src[p].hdr.controls[1]
  IN {[loc |-> NameLoc(p, 1), type |-> VariableType(c.name)],
      [loc |-> LowerLoc(p, 1), type |-> c.lower.type],
      [loc |-> UpperLoc(p, 1), type |-> c.upper.type]}
       \cup (IF c.step.present
              THEN {[loc |-> StepLoc(p, 1), type |-> c.step.type]} ELSE {})
WarningsAsked == config.warnOnNonstandardUsage \/ config.warnRealDoControls

\* C27 as stated: INTEGER gives no diagnostic; REAL or COMPLEX gives one,
\* a Warning or an Error; a non-numeric type gives one Error; a name that
\* is not a variable gives one Error.
TypeRuleAsStated ==
  \A p \in ClosedDoNormals :
    \A x \in TypedPlaces(p) :
      CASE x.type = "Integer" -> TypeMsgsAt(x.loc) = {}
        [] x.type \in {"Real", "Complex"} ->
             /\ Cardinality(TypeMsgsAt(x.loc)) = 1
             /\ \A m \in TypeMsgsAt(x.loc) :
                  messages[m].sev \in {"Warning", "Error"}
        [] x.type \in {"Character", "Logical", "NotAVariable"} ->
             /\ Cardinality(TypeMsgsAt(x.loc)) = 1
             /\ \A m \in TypeMsgsAt(x.loc) : messages[m].sev = "Error"
        [] OTHER -> TRUE

\* C27 amended: INTEGER gives no diagnostic; REAL gives none by default
\* and one Warning when warnings for nonstandard usage or for REAL DO
\* controls are asked for, never an Error; every other type, a variable
\* without a type included, gives one Error whatever the flags; a name that
\* is not a variable gives the one Error 'must be an INTEGER variable'; a
\* name without a symbol gives none.
TypeRule ==
  \A p \in ClosedDoNormals :
    \A x \in TypedPlaces(p) :
      CASE x.type \in {"Integer", "Unresolved"} -> TypeMsgsAt(x.loc) = {}
        [] x.type = "Real" ->
             /\ Cardinality(TypeMsgsAt(x.loc)) = IF WarningsAsked THEN 1 ELSE 0
             /\ \A m \in TypeMsgsAt(x.loc) :
                  /\ messages[m].sev = "Warning"
                  /\ messages[m].rule = <<"DoControlsShouldBeInteger">>
        [] x.type = "NotAVariable" ->
             /\ Cardinality(TypeMsgsAt(x.loc)) = 1
             /\ \A m \in TypeMsgsAt(x.loc) :
                  /\ messages[m].sev = "Error"
                  /\ messages[m].rule = <<"DoControlMustBeIntegerVariable">>
        [] OTHER ->
             /\ Cardinality(TypeMsgsAt(x.loc)) = 1
             /\ \A m \in TypeMsgsAt(x.loc) :
                  /\ messages[m].sev = "Error"
                  /\ messages[m].rule = <<"DoControlsShouldBeInteger">>

TypeRuleWitness ==
  /\ WarningsAsked
  /\ \E p \in ClosedDoNormals :
       /\ src[p].hdr.controls[1].lower.type = "Real"
       /\ \A x \in TypedPlaces(p) :
            x.type # "Integer" => Cardinality(TypeMsgsAt(x.loc)) = 1
  /\ \E p \in ClosedDoNormals :
       VariableType(src[p].hdr.controls[1].name) = "NotAVariable"

\* ---- labels
\* The labels on the statements of the body of the loop at p, nested
\* constructs included, and the branch-out diagnostics of that loop at q
LabelsInside(p) == {src[q].label : q \in BodyStmts(p)} \ {0}
BranchMsgs(q, p) ==
  {m \in DOMAIN messages :
     /\ messages[m].loc = StmtLoc(q)
     /\ messages[m].rule[1] = "ControlFlowEscapes"
     /\ messages[m].attach = <<StmtLoc(p)>>}

\* C28: for a DO CONCURRENT that has been left, a branch in its body to a
\* label on a statement of the body (at any depth) gets no diagnostic of
\* that loop, and a branch to any other label gets exactly one, an Error.
LabelEnforcement ==
  \A p \in ClosedDoConcurrents :
    \A q \in BodyStmts(p) :
      /\ src[q].target # 0 =>
           Cardinality(BranchMsgs(q, p))
             = IF src[q].target \in LabelsInside(p) THEN 0 ELSE 1
      /\ src[q].target = 0 => BranchMsgs(q, p) = {}
      /\ \A m \in BranchMsgs(q, p) : messages[m].sev = "Error"

LabelEnforcementWitness ==
  \E p \in ClosedDoConcurrents, o \in ClosedDoConcurrents :
    /\ p < o /\ o \in BodyStmts(p)
    /\ \E q \in BodyStmts(p) \ BodyStmts(o), r \in BodyStmts(o) :
         /\ src[q].target # 0
         /\ src[r].label = src[q].target
         /\ BranchMsgs(q, p) = {}
    /\ N = MaxEnd + 1

\* The calls made since the last NewSubprogram (all of them if there is none)
RECURSIVE SinceNewSubprogram(_)
SinceNewSubprogram(calls) ==
  IF calls = <<>> \/ Last(calls).op = "NewSubprogram" THEN <<>>
  ELSE Append(SinceNewSubprogram(SubSeq(calls, 1, Len(calls) - 1)),
              Last(calls))

\* The UserState that a sequence of calls leaves, starting from u
RECURSIVE ApplyAll(_, _)
ApplyAll(u, calls) ==
  IF calls = <<>> THEN u
  ELSE Apply(ApplyAll(u, SubSeq(calls, 1, Len(calls) - 1)), Last(calls))

\* C29: right after NewSubprogram no label is recorded, the nesting depth is
\* 0, no old-style structure component is recorded and IsDoLabel is false
\* for every label; and at any time the UserState is the one that the calls
\* since the last NewSubprogram produce from a fresh UserState, so nothing
\* recorded in an earlier program unit influences a later one.
PerUnitReset ==
  /\ (userCalls # <<>> /\ Last(userCalls).op = "NewSubprogram") =>
       /\ DOMAIN userState.doLabels = {}
       /\ userState.nonlabelDoConstructNestingDepth = 0
       /\ userState.oldStructureComponents = {}
       /\ \A l \in Labels : ~IsDoLabel(userState, l)
  /\ userState = ApplyAll(FreshUserState, SinceNewSubprogram(userCalls))
  /\ \A l \in Labels :
       IsDoLabel(userState, l) =>
         \E k \in 1..Len(SinceNewSubprogram(userCalls)) :
           SinceNewSubprogram(userCalls)[k] = Call("NewDoLabel", l)

\* A second program unit starts after the first one recorded a label, a
\* nesting depth and a component.
PerUnitResetWitness ==
  /\ Len(userCalls) = 4
  /\ userCalls[1].op = "EnterNonlabelDoConstruct"
  /\ userCalls[2].op = "NewDoLabel"
  /\ userCalls[3].op = "NoteOldStructureComponent"
  /\ userCalls[4].op = "NewSubprogram"
  /\ userState = FreshUserState

\* The open DO constructs (stack indices) that have s as DO variable or
\* index-name, and the control number of s in the header at statement p
OpenLoopsOf(s) ==
  {k \in DOMAIN constructStack :
     /\ constructStack[k].tag = "DoConstruct"
     /\ IsDoNormal(src[constructStack[k].ptr])
          \/ IsDoConcurrent(src[constructStack[k].ptr])
     /\ \E c \in DOMAIN GetControls(src[constructStack[k].ptr]) :
          GetControls(src[constructStack[k].ptr])[c].name = s}

ControlOf(s, p) ==
  CHOOSE c \in DOMAIN GetControls(src[p]) : GetControls(src[p])[c].name = s

OutermostOpen(s) ==
  CHOOSE k \in OpenLoopsOf(s) : \A j \in OpenLoopsOf(s) : k <= j

RedefineMsgsAt(l) ==
  {m \in DOMAIN messages :
     messages[m].loc = l /\ messages[m].rule = <<"Redefine">>}

ControlSyms ==
  UNION {{GetControls(src[p])[c].name : c \in DOMAIN GetControls(src[p])} :
           p \in {q \in DOMAIN src :
                    IsDoNormal(src[q]) \/ IsDoConcurrent(src[q])}}

\* C30: the header of a DO construct has, from its entry on, exactly one
\* redefinition error at the name of its DO variable or index-name when
\* that variable is the variable of an enclosing loop that is still open,
\* and none otherwise; and a variable is active exactly while some loop
\* that has it is open, at the location where the outermost such loop
\* named it, so leaving an inner loop leaves it active for the outer one.
ReentryOfActiveVariable ==
  /\ \A p \in DOMAIN src :
       (IsDoNormal(src[p]) \/ IsDoConcurrent(src[p])) =>
         \A c \in DOMAIN GetControls(src[p]) :
           LET s == GetControls(src[p])[c].name
           IN /\ Cardinality(RedefineMsgsAt(NameLoc(p, c)))
                   = IF LiveAt(s, p) THEN 1 ELSE 0
              /\ \A m \in RedefineMsgsAt(NameLoc(p, c)) :
                   /\ messages[m].sev = "Error"
                   /\ messages[m].sym = s
  /\ \A s \in ControlSyms :
       /\ s \in DOMAIN activeDoVariables <=> OpenLoopsOf(s) # {}
       /\ s \in DOMAIN activeDoVariables =>
            LET o == constructStack[OutermostOpen(s)].ptr
            IN activeDoVariables[s] = NameLoc(o, ControlOf(s, o))

\* 'do i; do i; end do': the inner DO was reported at its entry and has
\* been left, and i is still active for the outer loop.
ReentryOfActiveVariableWitness ==
  /\ N = 3
  /\ IsDoNormal(src[1]) /\ IsDoNormal(src[2])
  /\ GetDoVariable(src[1]) = GetDoVariable(src[2])
  /\ src[3].kind = "EndDo" /\ src[3].opener = 2
  /\ Cardinality(RedefineMsgsAt(NameLoc(2, 1))) = 1
  /\ GetDoVariable(src[1]) \in DOMAIN activeDoVariables
  /\ activeDoVariables[GetDoVariable(src[1])] = NameLoc(1, 1)

\* The stack index of the construct that a diagnostic of the jump attaches
AttachedConstruct(m) ==
  MaxOf({k \in DOMAIN constructStack :
           messages[m].attach = <<StmtLoc(constructStack[k].ptr)>>})

\* C31: when CheckNesting returned at a matching construct, the jump has no
\* 'no matching construct' diagnostic, every diagnostic of the jump
\* attaches a construct from the matched one inwards, no construct has
\* more than one, and the diagnostics come innermost construct first.
NestingWalkStopsAtMatch ==
  (JumpVisited /\ matched > 0) =>
    /\ NoMatchMsgs = {}
    /\ \A k \in 1..(matched - 1) : LeaveMsgs(k) = {}
    /\ \A k \in DOMAIN constructStack : Cardinality(LeaveMsgs(k)) <= 1
    /\ \A m \in OfCur : AttachedConstruct(m) >= matched
    /\ \A m1, m2 \in OfCur :
         m1 < m2 => AttachedConstruct(m1) > AttachedConstruct(m2)

\* A jump matched by the middle one of three constructs, with a construct
\* that must not be left on either side of it.
NestingWalkStopsAtMatchWitness ==
  /\ JumpVisited
  /\ Len(constructStack) = 3
  /\ matched = 2
  /\ ForbidsLeaving(1) /\ ForbidsLeaving(3)
  /\ Cardinality(LeaveMsgs(3)) = 1
  /\ LeaveMsgs(1) = {}

\* The places of all the expressions of the header at p, the mask included
HeaderPlaces(p) ==
  ExprPlaces(p) \cup {[loc |-> MaskLoc(p), expr |-> src[p].hdr.mask]}
LocalCollisionsAt(loc) ==
  {m \in DOMAIN messages :
     /\ messages[m].loc = loc
     /\ messages[m].rule[1] \in {"ExprReferencesLocal", "MaskReferencesLocal"}}
LocalCollisionsOf(p) ==
  {m \in DOMAIN messages :
     /\ messages[m].loc[1] = p
     /\ messages[m].rule[1] \in {"ExprReferencesLocal", "MaskReferencesLocal"}}
PlacesWith(p, y) == {x \in HeaderPlaces(p) : Mentions(x.expr, {y})}

\* C32: in the check of a DO CONCURRENT that has been left, each header
\* expression has at most one index-collision diagnostic and at most one
\* LOCAL-collision diagnostic, however many index-names or LOCAL variables
\* it references; each expression that references a LOCAL variable has its
\* own, so a LOCAL variable referenced in m expressions of the header
\* comes with m LOCAL-collision diagnostics, one at each of them.
CollisionsPerExpression ==
  \A p \in ClosedDoConcurrents :
    /\ \A x \in HeaderPlaces(p) :
         /\ Cardinality(IndexCollisionsAt(x.loc)) <= 1
         /\ Cardinality(LocalCollisionsAt(x.loc))
              = IF Mentions(x.expr, LocalsOf(p)) THEN 1 ELSE 0
         /\ \A m \in LocalCollisionsAt(x.loc) :
              messages[m].sym \in
                GatherSymbolsFromExpression(x.expr) \cap LocalsOf(p)
    /\ \A y \in LocalsOf(p) :
         /\ Cardinality(LocalCollisionsOf(p)) >= Cardinality(PlacesWith(p, y))
         /\ \A x \in PlacesWith(p, y) :
              Cardinality(LocalCollisionsAt(x.loc)) = 1
    /\ Cardinality(LocalCollisionsOf(p))
         = Cardinality({x \in HeaderPlaces(p) :
                          Mentions(x.expr, LocalsOf(p))})

\* A header left in which one expression references two LOCAL variables
\* and the LOCAL variable x is referenced in four expressions.
LocalInSeveralExpressions ==
  \E p \in ClosedDoConcurrents :
    /\ Cardinality(LocalsOf(p)) = 2
    /\ Cardinality(GatherSymbolsFromExpression(src[p].hdr.controls[1].lower)
                     \cap LocalsOf(p)) = 2
    /\ Cardinality(LocalCollisionsAt(LowerLoc(p, 1))) = 1
    /\ Cardinality(PlacesWith(p, <<"x", 0>>)) = 4
    /\ Cardinality(LocalCollisionsOf(p)) = 4

\* A header left in which one expression references two index-names and
\* another an index-name and a LOCAL variable.
CollisionsOfBothKinds ==
  \E p \in ClosedDoConcurrents :
    /\ Len(src[p].hdr.controls) = 2
    /\ Cardinality(GatherSymbolsFromExpression(src[p].hdr.controls[1].lower)
                     \cap IndexNamesOf(src, p)) = 2
    /\ Cardinality(IndexCollisionsAt(LowerLoc(p, 1))) = 1
    /\ Cardinality(IndexCollisionsAt(UpperLoc(p, 2))) = 1
    /\ Cardinality(LocalCollisionsAt(UpperLoc(p, 2))) = 1

CollisionsPerExpressionWitness ==
  LocalInSeveralExpressions /\ CollisionsOfBothKinds

\* The UserState before and after the k-th call, and the depth in it
StateAfter(k) == ApplyAll(FreshUserState, SubSeq(userCalls, 1, k))
DepthAfterCall(k) == StateAfter(k).nonlabelDoConstructNestingDepth
Depth == userState.nonlabelDoConstructNestingDepth

\* Calls a+1..b are a balanced sequence of Enter/Leave calls: no
\* NewSubprogram among them, as many EnterNonlabelDoConstruct as
\* LeaveDoConstruct, and in every prefix at least as many.
Enters(a, b) ==
  Cardinality({k \in (a + 1)..b :
                 userCalls[k].op = "EnterNonlabelDoConstruct"})
Leaves(a, b) ==
  Cardinality({k \in (a + 1)..b : userCalls[k].op = "LeaveDoConstruct"})
Balanced(a, b) ==
  /\ \A k \in (a + 1)..b : userCalls[k].op # "NewSubprogram"
  /\ \A k \in (a + 1)..b : Enters(a, k) >= Leaves(a, k)
  /\ Enters(a, b) = Leaves(a, b)

\* C33: the non-label DO nesting depth is never negative; a LeaveDoConstruct
\* called at depth 0 leaves it 0; and after a balanced sequence of
\* Enter/Leave calls the depth is what it was before the sequence.
DepthNeverNegative ==
  /\ Depth >= 0
  /\ (/\ userCalls # <<>>
      /\ Last(userCalls).op = "LeaveDoConstruct"
      /\ DepthAfterCall(Len(userCalls) - 1) = 0) => Depth = 0
  /\ \A a \in 0..Len(userCalls) :
       Balanced(a, Len(userCalls)) => Depth = DepthAfterCall(a)

\* LeaveDoConstruct was called at depth 0 and then, from depth 1, a
\* balanced Enter/Leave pair.
DepthNeverNegativeWitness ==
  /\ Len(userCalls) = 4
  /\ userCalls[1].op = "LeaveDoConstruct"
  /\ DepthAfterCall(1) = 0
  /\ userCalls[2].op = "EnterNonlabelDoConstruct"
  /\ Balanced(2, 4)
  /\ Enters(2, 4) = 1
  /\ Depth = 1

\* The depth after the first k of the calls since the last NewSubprogram,
\* counted from the calls alone
RECURSIVE CountDepth(_, _)
CountDepth(calls, k) ==
  IF k = 0 THEN 0
  ELSE LET d == CountDepth(calls, k - 1)
       IN CASE calls[k].op = "EnterNonlabelDoConstruct" -> d + 1
            [] calls[k].op = "LeaveDoConstruct" -> IF d > 0 THEN d - 1 ELSE 0
            [] OTHER -> d

\* The most recent NewDoLabel(l) among the calls (0: none)
LastRecorded(calls, l) ==
  MaxOf({k \in DOMAIN calls : calls[k] = Call("NewDoLabel", l)})

\* Whether l is a DO label according to the calls made
DoLabelByCalls(calls, l) ==
  LET since == SinceNewSubprogram(calls)
      k == LastRecorded(since, l)
  IN /\ k > 0
     /\ CountDepth(since, k) >= CountDepth(since, Len(since))

\* C34: IsDoLabel(l) holds exactly when l was recorded by NewDoLabel since
\* the last NewSubprogram and the depth at its most recent NewDoLabel is at
\* least the current depth.
IsDoLabelRule ==
  \A l \in Labels : IsDoLabel(userState, l) <=> DoLabelByCalls(userCalls, l)

\* A label recorded at depth 1 was not a DO label at depth 2 and is one
\* again back at depth 1; and it stays one at depth 0.
IsDoLabelRuleWitness ==
  /\ Len(userCalls) = 4
  /\ userCalls[1].op = "EnterNonlabelDoConstruct"
  /\ userCalls[2] = Call("NewDoLabel", 10)
  /\ userCalls[3].op = "EnterNonlabelDoConstruct"
  /\ ~IsDoLabel(StateAfter(3), 10)
  /\ userCalls[4].op = "LeaveDoConstruct"
  /\ IsDoLabel(userState, 10)
  /\ IsDoLabel(UserStateLeaveDoConstruct(userState), 10)

\* The last FileFrame call returned (no RUNTIME_CHECK failed in it and its
\* Flush returned)
Returned(op) == frameLog.op = op /\ frameLog.halted = ""

\* Between calls the valid data does not wrap and starts the buffer.
FrameAtRest ==
  frameLog.halted = "" =>
    /\ fileFrame.start = 0
    /\ fileFrame.length <= fileFrame.size
    /\ fileFrame.frame <= fileFrame.length
    /\ DOMAIN fileFrame.buffer = 0..(fileFrame.size - 1)

\* C35: when WriteFrame(at, bytes) has returned, the current frame starts
\* at file offset at and is contiguous in the buffer for at least bytes
\* blocks.
WriteFrameEstablishesFrame ==
  Returned("WriteFrame") =>
    /\ FrameAt(fileFrame) = frameLog.at
    /\ FrameLength(fileFrame) >= frameLog.bytes
    /\ fileFrame.start + fileFrame.frame + frameLog.bytes <= fileFrame.size
    /\ fileFrame.dirty

\* WriteFrame(1, 2) returned in a dirty buffer whose data starts at file
\* offset 0: the frame lies one block into the valid data.
WriteFrameEstablishesFrameWitness ==
  /\ Returned("WriteFrame")
  /\ frameLog.wasDirty
  /\ frameLog.at = 1
  /\ frameLog.bytes = 2
  /\ fileFrame.fileOffset = 0
  /\ fileFrame.frame = 1
  /\ fileFrame.length = 3
  /\ fileFrame.size = minBuffer + 1
  /\ FrameLength(fileFrame) = 2

RuntimeChecks ==
  {"RUNTIME_CHECK(length_ < size_)", "RUNTIME_CHECK(length_ >= n)",
   "RUNTIME_CHECK(next < size_)"}

\* C36 as stated: no RUNTIME_CHECK of ReadFrame or DiscardLeadingBytes
\* fails, whatever the calls and however many blocks (from none to the
\* whole chunk asked for) each Read of the store delivers.
NoRuntimeCheckFails == frameLog.halted \notin RuntimeChecks

\* C37 as stated: the store is only ever written blocks of the file ranges
\* that WriteFrame established since the previous flush, never blocks that
\* ReadFrame brought in; a Flush of a buffer that is not dirty writes
\* nothing and changes nothing; and a Flush of a dirty buffer that returns
\* leaves it not dirty and with length 0.
FlushWritesOnlyFrames ==
  [][/\ \A w \in frameLog'.wrote :
          w[1] \in frameLog'.flushed /\ w[2] # "R"
     /\ (frameLog'.op = "Flush" /\ ~fileFrame.dirty) =>
          frameLog'.wrote = {} /\ fileFrame' = fileFrame
     /\ (frameLog'.op = "Flush" /\ fileFrame.dirty
           /\ frameLog'.halted = "") =>
          ~fileFrame'.dirty /\ fileFrame'.length = 0]_vars

\* The signals of the last synchronous call
EndSignalled == \E k \in DOMAIN fileLog.last.signals :
                  fileLog.last.signals[k] = <<"End">>
ErrorsSignalled ==
  {k \in DOMAIN fileLog.last.signals : fileLog.last.signals[k][1] = "Error"}

SeekSucceedsWhereTheSystemDoes ==
  fileLog.last.seek # "none" =>
    /\ (fileLog.last.at = fileLog.last.before \/ fileLog.last.lseek = "ok")
         => fileLog.last.seek \in {"same", "moved"}
    /\ fileLog.last.seek = "failed"
         => (fileLog.last.lseek = "fails" /\ ErrorsSignalled # {})
    /\ (fileLog.last.op = "Write" /\ fileLog.last.lseek = "ok"
          /\ \A k \in ErrorsSignalled : fileLog.last.signals[k][2] \notin Errnos)
         => fileLog.last.count = fileLog.last.maxBytes

\* The nodes that the list and the threads hold
OnList(a) == Cardinality({k \in DOMAIN openFile.pending :
                            openFile.pending[k].addr = a})
HeldBy(a) == {t \in Threads : fileLog.threads[t].p # <<>>
                              /\ fileLog.threads[t].p[1].addr = a}

\* What has happened to each node agrees with where it is: on the list
\* until it is taken off, then held by one thread until that thread has
\* signalled and freed it
NodesSettledOnce ==
  \A a \in DOMAIN fileLog.nodes :
    LET n == fileLog.nodes[a]
    IN /\ n.removed \in {0, 1}
       /\ n.signalled = n.freed
       /\ n.freed \in {0, n.removed}
       /\ OnList(a) = 1 - n.removed
       /\ Cardinality(HeldBy(a)) = n.removed - n.freed

WaitForNoneIsIdle ==
  (fileLog.event.op = "Wait" /\ ~fileLog.event.wasPending)
    => /\ ~fileLog.event.changed
       /\ fileLog.threads[fileLog.event.thread] = Idle

WaitAllReturnsEmpty ==
  fileLog.event.op = "WaitAll returns"
    => /\ openFile.pending = <<>>
       /\ fileLog.threads[fileLog.event.thread] = Idle

\* C38: whatever the interleaving, each pending result is taken off the
\* list, signalled to a handler and freed at most once, in that order and
\* by one thread, and a thread inside Wait or WaitAll returns, so that each
\* result a thread has taken is signalled and freed exactly once; Wait(id)
\* for an id that is not pending returns without a node to signal and
\* leaves the list unchanged; and WaitAll returns, with the list empty,
\* once transfers are no longer started.
PendingExactlyOnce ==
  /\ [](NodesSettledOnce /\ WaitForNoneIsIdle /\ WaitAllReturnsEmpty)
  /\ \A t \in Threads :
       (fileLog.threads[t].pc # "idle") ~> (fileLog.threads[t].pc = "idle")

\* Three results were pending with ids that wrapped around; one thread has
\* taken the middle one off the list by Wait and not yet signalled it, while
\* the other thread's WaitAll has signalled and freed the newest and is
\* about to take lock_ again.
PendingExactlyOnceWitness ==
  /\ Len(fileLog.nodes) = MaxAsync
  /\ \E t, u \in Threads :
       /\ fileLog.threads[t].pc = "Wait"
       /\ fileLog.threads[t].p[1].addr = 2
       /\ fileLog.threads[u].pc = "again"
  /\ fileLog.nodes[3].freed = 1
  /\ Len(openFile.pending) = 1
  /\ openFile.pending[1].id > openFile.nextId

====
